---- MODULE Spec2Model ----
(***************************************************************************)
(* Model of the image segmentation engine of YImage (img_segment.c, img.h, *)
(* itemstack.c): the process-wide temporary stack, the pixel-type dispatch,*)
(* the link builder BUILD_LINKS, the region extractor and the segment      *)
(* table built by img_segmentation_new.                                    *)
(*                                                                         *)
(* Conventions.                                                            *)
(*  - C arrays are functions over 0..n-1, the region/index array and the   *)
(*    packed point buffer are sequences that hold the part written so far. *)
(*  - A double threshold t is carried as the integer 2*t (field t2), so    *)
(*    that fractional thresholds (0.5, 2.5) are inputs of the model.       *)
(*  - A double centre (xmin + xmax)*0.5 is carried as xmin + xmax.         *)
(*  - errno is a string ("none" when the caller's cleared value is left).  *)
(*  - Undefined behaviour (signed overflow of a - b in a 32-bit pixel type,*)
(*    conversion of an out-of-range double to the pixel type, the contents *)
(*    of a malloc'ed block) is a choice made by \E in the action where it  *)
(*    happens.                                                             *)
(***************************************************************************)
EXTENDS Integers, Sequences, FiniteSets, TLC

(***************************************************************************)
(* Bounds of the model.                                                    *)
(***************************************************************************)
MaxWidth == 3
MaxHeight == 2
MaxPixels == 6
MaxList == 2
MaxLinks == 1
MaxLength == 3

(***************************************************************************)
(* Program constants (img.h).                                              *)
(***************************************************************************)
IMG_LINK_NONE == 0
IMG_LINK_EAST == 1
IMG_LINK_WEST == 2
IMG_LINK_NORTH == 4
IMG_LINK_SOUTH == 8
IMG_LINK_OWNED == 16

IMG_TYPE_NONE == 0
IMG_TYPE_UINT8 == 2
IMG_TYPE_INT16 == 3
IMG_TYPE_INT32 == 5
IMG_TYPE_DOUBLE == 10
IMG_TYPE_SCOMPLEX == 11
IMG_TYPE_RGB == 13
IMG_TYPE_RGBA == 14

INT32_MAX == 2147483647
INT32_MIN == -2147483647 - 1
UINT8_MAX == 255

(***************************************************************************)
(* Bit operations on img_link_t (unsigned char).                           *)
(***************************************************************************)
HasBit(m, b) == (m \div b) % 2 = 1

RECURSIVE BitOr(_, _)
BitOr(a, b) ==
  IF a = 0 THEN b
  ELSE IF b = 0 THEN a
  ELSE (IF a % 2 = 1 \/ b % 2 = 1 THEN 1 ELSE 0) + 2*BitOr(a \div 2, b \div 2)

RECURSIVE BitAnd(_, _)
BitAnd(a, b) ==
  IF a = 0 \/ b = 0 THEN 0
  ELSE (IF a % 2 = 1 /\ b % 2 = 1 THEN 1 ELSE 0) + 2*BitAnd(a \div 2, b \div 2)

(* (int16_t)v: the x and y members of point_t. *)
ToInt16(v) == LET m == v % 65536 IN IF m >= 32768 THEN m - 65536 ELSE m


(***************************************************************************)
(* Pixel types.  The dispatch of img_segmentation_new accepts the ten      *)
(* numeric tags 1..10.  Three of them carry samples in the model: UINT8    *)
(* and INT16, whose arithmetic is promoted to int, and INT32, whose        *)
(* arithmetic is done in the pixel type itself.                            *)
(***************************************************************************)
SupportedTag(type) == type \in 1..IMG_TYPE_DOUBLE

SampledTypes == {IMG_TYPE_UINT8, IMG_TYPE_INT16, IMG_TYPE_INT32}

UnsupportedTags == {-1, IMG_TYPE_NONE, IMG_TYPE_SCOMPLEX, IMG_TYPE_RGB,
                    IMG_TYPE_RGBA, IMG_TYPE_RGBA + 1}

Samples(type) ==
  CASE type = IMG_TYPE_INT32 -> {-1, INT32_MAX}
    [] type = IMG_TYPE_INT16 -> {0, 1, 2}
    [] OTHER -> {0, 2}

(* Thresholds, as 2*t: 0, 0.5, 1, 2 and 256 for UINT8 samples; 0 and 1    *)
(* for INT32 samples, whose differences are 0 or 2^31; 1 for INT16         *)
(* samples, under which 0 ~ 1 and 1 ~ 2 but not 0 ~ 2.                     *)
Thresholds2(type) ==
  CASE type = IMG_TYPE_INT32 -> {0, 2}
    [] type = IMG_TYPE_INT16 -> {2}
    [] OTHER -> {0, 1, 2, 4, 512}

(***************************************************************************)
(* ABS_DIFF and SIMILAR.  For INT32 the subtraction a - b (a >= b) is done *)
(* in 32 bits: it overflows when a - b > INT32_MAX, which is undefined     *)
(* behaviour; the outcome ovf is "wrap" (two's complement wrap-around) or  *)
(* "exact" (the compiler evaluates the comparison as if a - b were exact). *)
(***************************************************************************)
OverflowOutcomes == {"wrap", "exact"}

Max(a, b) == IF a >= b THEN a ELSE b
Min(a, b) == IF a >= b THEN b ELSE a

(* hi - lo does not fit in 32 bits (hi >= lo). *)
Overflows32(hi, lo) == lo < 0 /\ hi > INT32_MAX + lo

(* hi - lo - 2^32, computed without leaving the 32-bit range. *)
Wrapped32(hi, lo) == ((hi - INT32_MAX) - 1) + (INT32_MIN - lo)

ABS_DIFF(type, a, b) ==
  LET hi == Max(a, b)
      lo == Min(a, b)
  IN IF type = IMG_TYPE_INT32 /\ Overflows32(hi, lo)
     THEN [overflow |-> TRUE, value |-> Wrapped32(hi, lo)]
     ELSE [overflow |-> FALSE, value |-> hi - lo]

SIMILAR(type, a, b, t, ovf) ==
  LET d == ABS_DIFF(type, a, b)
  IN IF d.overflow /\ ovf = "exact" THEN FALSE ELSE d.value <= t

(***************************************************************************)
(* Conversion of the double threshold to pixel_t at the call of            *)
(* BUILD_LINKS(TYPE): truncation toward zero when the integral part fits,  *)
(* undefined behaviour otherwise (the outcomes: reduction modulo 2^8 or    *)
(* saturation).                                                            *)
(***************************************************************************)
ThresholdToPixel(type, t2) ==
  LET trunc == t2 \div 2
  IN IF type = IMG_TYPE_UINT8 /\ trunc > UINT8_MAX
     THEN {trunc % (UINT8_MAX + 1), UINT8_MAX}
     ELSE {trunc}

(***************************************************************************)
(* The item stack (itemstack.c).  A stack is a record: exists (the static  *)
(* pointer is not NULL), size (capacity of the item array), item (the      *)
(* sequence of pushed items, count = Len(item)).  The heap is the set of   *)
(* live blocks.                                                            *)
(***************************************************************************)
NullStack == [exists |-> FALSE, size |-> 0, item |-> <<>>]

(* itemstack_new(0) *)
itemstack_new(ok) ==
  IF ok THEN [stack |-> [exists |-> TRUE, size |-> 0, item |-> <<>>],
              blocks |-> {"stack"}]
        ELSE [stack |-> NullStack, blocks |-> {}]

(* itemstack_push: growOK tells whether the (re)allocation of the item     *)
(* array succeeds when it is needed.                                       *)
itemstack_push(stk, data, destroy, growOK) ==
  LET count == Len(stk.item)
      full == count >= stk.size
  IN IF ~stk.exists THEN [ok |-> FALSE, stack |-> stk, err |-> "EFAULT", blocks |-> {}]
     ELSE IF full /\ ~growOK
     THEN [ok |-> FALSE, stack |-> stk, err |-> "ENOMEM", blocks |-> {}]
     ELSE [ok |-> TRUE,
           stack |-> [stk EXCEPT
                        !.size = IF full THEN (7*count + 20) \div 5 ELSE @,
                        !.item = Append(@, [data |-> data, destroy |-> destroy])],
           err |-> "keep",
           blocks |-> IF full THEN {"item"} ELSE {}]

(* size_t of a byte count computed from signed longs: a negative product   *)
(* converts to a value above PTRDIFF_MAX, which malloc always refuses.     *)
Unsatisfiable(nbytes) == nbytes < 0

(* Faulty variant of itemstack_push_dynamic: a request of zero bytes is    *)
(* not rejected.                                                           *)
itemstack_push_dynamic_ZeroBytes(stk, data, nbytes, mallocOK, growOK) ==
  IF Unsatisfiable(nbytes) \/ ~mallocOK
  THEN [ptr |-> "NULL", stack |-> stk, err |-> "ENOMEM", blocks |-> {}]
  ELSE LET p == itemstack_push(stk, data, "free", growOK)
       IN IF p.ok
          THEN [ptr |-> data, stack |-> p.stack, err |-> "keep",
                blocks |-> p.blocks \cup {data}]
          ELSE [ptr |-> "NULL", stack |-> stk, err |-> p.err, blocks |-> {}]

(* itemstack_push_dynamic(stack, nbytes, clear): mallocOK and growOK are   *)
(* the allocator's answers.                                                *)
itemstack_push_dynamic(stk, data, nbytes, mallocOK, growOK) ==
  IF nbytes = 0
  THEN [ptr |-> "NULL", stack |-> stk, err |-> "EINVAL", blocks |-> {}]
  ELSE IF Unsatisfiable(nbytes) \/ ~mallocOK
  THEN [ptr |-> "NULL", stack |-> stk, err |-> "ENOMEM", blocks |-> {}]
  ELSE LET p == itemstack_push(stk, data, "free", growOK)
       IN IF p.ok
          THEN [ptr |-> data, stack |-> p.stack, err |-> "keep",
                blocks |-> p.blocks \cup {data}]
          ELSE [ptr |-> "NULL", stack |-> stk, err |-> p.err, blocks |-> {}]

(* itemstack_drop(stack, n): the final count, and the blocks its items'    *)
(* destroy functions free.                                                 *)
itemstack_drop(stk, n) ==
  LET count == Len(stk.item)
      final_count == IF n = -1 \/ n >= count THEN 0 ELSE count - n
  IN [stack |-> [stk EXCEPT !.item = SubSeq(@, 1, final_count)],
      freed |-> {stk.item[k].data : k \in (final_count + 1)..count}]

SetErrno(old, err) == IF err = "keep" THEN old ELSE err

(***************************************************************************)
(* State.                                                                  *)
(***************************************************************************)
VARIABLES
  pc,        \* position in img_segmentation_new ("idle" between calls)
  args,      \* arguments of the running call
  stack,     \* the process-wide temporary stack (static itemstack_t *stack)
  heap,      \* live malloc'ed blocks
  errno,     \* errno
  oom,       \* the allocator refused a satisfiable request during this call
  index,     \* the region array (written part), or "NULL"
  link,      \* the link bitmap, or "NULL"
  threshold, \* the pixel_t threshold BUILD_LINKS received
  status,    \* status returned by BUILD_LINKS
  ws,        \* the segmentation object being built, or "NULL"
  i,         \* raster position of the region extractor
  nsegments, \* number of regions found so far
  result,    \* value returned by the call
  sgm,       \* the handle the caller keeps, or NULL
  holders,   \* who holds a reference on sgm: its creator, extra links
  sel,       \* the handle img_segmentation_select returned, or NULL
  list,      \* the index list of the last img_segmentation_select
  op,        \* the library call that returned last
  cp,        \* the frame of img_chainpool_new: its arguments and locals
  pool,      \* the chain pool the caller received, or NULL
  fit,       \* the frame of fit_vertical_shear and fit_horizontal_shear
  ms         \* a memory stack of memstack.c: the pointer and its blocks

(* The caller's variables. *)
client == <<sgm, holders, sel, list, op>>

(* The variables of the chaining of segments. *)
chaining == <<cp, pool>>

(* The variables of the functions that are exercised on their own. *)
units == <<fit, ms>>

vars == <<pc, args, stack, heap, errno, oom, index, link, threshold, status,
          ws, i, nsegments, result, client, chaining, units>>

NULL == [null |-> TRUE]

NoArgs == [img |-> <<>>, imgNull |-> TRUE, type |-> IMG_TYPE_NONE, offset |-> 0,
           width |-> 0, height |-> 0, stride |-> 0, t2 |-> 0]

(* Nobody holds the caller's handle. *)
NoHolders == [creator |-> FALSE, links |-> 0]

(* The frame of img_chainpool_new before any call on the caller's handle:  *)
(* called tells whether the function has been entered with this handle,    *)
(* before is the handle as it found it, made and freed are the blocks it   *)
(* allocated for itself and the blocks it freed (in order), kept the tops  *)
(* whose chain stays in the pool, failed the allocation that failed.       *)
NoFrame ==
  [called |-> FALSE,
   par |-> [satol |-> 0, srtol |-> 0, drmin |-> 0, drmax |-> 0, slope |-> 0,
            aatol |-> 0, artol |-> 0, lmin |-> 0, lmax |-> 0],
   before |-> NULL, lnk |-> <<>>, first |-> 0, items |-> 0, frags |-> 0,
   segment_list |-> <<>>, jleft |-> 0, level |-> 0, count |-> 0, top |-> 0,
   nchains |-> 0, chainpool |-> NULL, nmade |-> 0, made |-> {},
   freed |-> <<>>, kept |-> {}, failed |-> "none", sweeps |-> 0,
   round |-> 1, old |-> <<>>, consulted |-> FALSE, previous |-> NULL]

IMG_SUCCESS == 0
IMG_FAILURE == -1

(***************************************************************************)
(* Inputs of a call.  An image of width x height pixels with row pitch     *)
(* stride is an array of stride*(height - 1) + width samples; the padding  *)
(* samples (x >= width) hold the lowest sample value.                      *)
(***************************************************************************)
Sizes == {wh \in (1..MaxWidth) \X (1..MaxHeight) : wh[1]*wh[2] <= MaxPixels}

(* Row pitches tried for an image: the width, and one more when the image  *)
(* has a second row for the pitch to reach.                                *)
Pitches(width, height) == IF height >= 2 THEN {width, width + 1} ELSE {width}

ImageLength(width, height, stride) == stride*(height - 1) + width

LowestSample(type) == CHOOSE v \in Samples(type) : \A u \in Samples(type) : v <= u

Images(type, width, height, stride) ==
  LET n == ImageLength(width, height, stride)
  IN {f \in [0..(n - 1) -> Samples(type)] :
        \A k \in 0..(n - 1) : (k % stride) >= width => f[k] = LowestSample(type)}

ConstantImage(type, width, height, stride) ==
  IF width >= 1 /\ height >= 1 /\ stride >= 1
  THEN [k \in 0..(ImageLength(width, height, stride) - 1) |-> LowestSample(type)]
  ELSE <<>>

(* Arguments the dispatch and BUILD_LINKS accept. *)
WellFormed(a) ==
  /\ SupportedTag(a.type)
  /\ a.width >= 1 /\ a.height >= 1 /\ a.stride >= a.width
  /\ ~a.imgNull


(***************************************************************************)
(* BUILD_LINKS(TYPE).  c is the record of the function's parameters:       *)
(* type, img, img_offset, img_pitch, lnk_offset, lnk_pitch, width, height, *)
(* threshold (already converted to pixel_t) and ovf (outcome of a signed   *)
(* overflow).  lnk is the bitmap, a function over its cell indices.        *)
(***************************************************************************)

(* The test of one pair of neighbours: SIMILAR when threshold != 0, the    *)
(* equality of the samples in the threshold = 0 branch.                    *)
SamePair(c, a, b) ==
  IF c.threshold # 0 THEN SIMILAR(c.type, a, b, c.threshold, c.ovf)
                     ELSE a = b

(* Faulty variant of SetEast: the bit is assigned, not or-ed in. *)
SetEast_Assigned(lnk, k) == [lnk EXCEPT ![k] = IMG_LINK_EAST]

(* lnk0[x - 1] |= EAST for a similar left neighbour. *)
SetEast(lnk, k) == [lnk EXCEPT ![k] = BitOr(@, IMG_LINK_EAST)]

(* lnk2[x] |= NORTH for a similar neighbour below. *)
SetNorth(lnk, k) == [lnk EXCEPT ![k] = BitOr(@, IMG_LINK_NORTH)]

(* First row (Y = 0): the loop over x = 1 .. width - 1. *)
RECURSIVE FirstRowLoop(_, _, _, _)
FirstRowLoop(c, lnk, x, pix0) ==
  IF x >= c.width THEN lnk
  ELSE LET pix1 == pix0
           cur == c.img[c.img_offset + x]
           lnk0 == c.lnk_offset
           out == IF SamePair(c, cur, pix1)
                  THEN [SetEast(lnk, lnk0 + x - 1) EXCEPT ![lnk0 + x] = IMG_LINK_WEST]
                  ELSE [lnk EXCEPT ![lnk0 + x] = IMG_LINK_NONE]
       IN FirstRowLoop(c, out, x + 1, cur)

(* Other rows (Y > 0): the inner loop over x = 1 .. width - 1 of row y. *)
RECURSIVE OtherRowLoop(_, _, _, _, _)
OtherRowLoop(c, lnk, y, x, pix0) ==
  IF x >= c.width THEN lnk
  ELSE LET img0 == c.img_offset + y*c.img_pitch
           img2 == img0 - c.img_pitch
           lnk0 == c.lnk_offset + y*c.lnk_pitch
           lnk2 == lnk0 - c.lnk_pitch
           pix1 == pix0
           cur == c.img[img0 + x]
           pix2 == c.img[img2 + x]
           sameW == SamePair(c, cur, pix1)
           sameS == SamePair(c, cur, pix2)
           bit0 == IF sameW THEN IMG_LINK_WEST ELSE IMG_LINK_NONE
           bit2 == IF sameS THEN IMG_LINK_SOUTH ELSE IMG_LINK_NONE
           l1 == IF sameW THEN SetEast(lnk, lnk0 + x - 1) ELSE lnk
           l2 == IF sameS THEN SetNorth(l1, lnk2 + x) ELSE l1
           out == [l2 EXCEPT ![lnk0 + x] = BitOr(bit0, bit2)]
       IN OtherRowLoop(c, out, y, x + 1, cur)

(* The first cell of row y: lnk0[0] = IMG_LINK_NONE. *)
RowStart(c, lnk, y) ==
  [lnk EXCEPT ![c.lnk_offset + y*c.lnk_pitch] = IMG_LINK_NONE]

(* Other rows (Y > 0): the loop over y = 1 .. height - 1. *)
RECURSIVE OtherRows(_, _, _)
OtherRows(c, lnk, y) ==
  IF y >= c.height THEN lnk
  ELSE LET pix0 == c.img[c.img_offset + y*c.img_pitch]
       IN OtherRows(c, OtherRowLoop(c, RowStart(c, lnk, y), y, 1, pix0), y + 1)

BUILD_LINKS(c, imgNull, lnk) ==
  IF imgNull \/ lnk = NULL
  THEN [status |-> IMG_FAILURE, err |-> "EFAULT", lnk |-> lnk]
  ELSE IF c.img_pitch < c.width \/ c.lnk_pitch < c.width
  THEN [status |-> IMG_FAILURE, err |-> "EINVAL", lnk |-> lnk]
  ELSE IF c.width <= 0 \/ c.height <= 0
  THEN [status |-> IMG_FAILURE,
        err |-> IF c.width < 0 \/ c.height < 0 THEN "EINVAL" ELSE "keep",
        lnk |-> lnk]
  ELSE LET pix0 == c.img[c.img_offset]
           first == FirstRowLoop(c, RowStart(c, lnk.cell, 0), 1, pix0)
       IN [status |-> IMG_SUCCESS, err |-> "keep",
           lnk |-> [null |-> FALSE, cell |-> OtherRows(c, first, 1)]]

(***************************************************************************)
(* allocate(npoints, nsegments) and img_segmentation_unlink.               *)
(***************************************************************************)
allocate(npoints, nseg, okWs, okSegment) ==
  IF ~okWs \/ (nseg > 0 /\ ~okSegment)
  THEN [ws |-> NULL, blocks |-> {}]
  ELSE [ws |-> [null |-> FALSE, nrefs |-> 0,
                segment |-> [k \in 1..Max(nseg, 0) |->
                               [level |-> 0, nparents |-> 0, first_link |-> 0]],
                has_segment |-> nseg > 0,
                number |-> Max(nseg, 0), width |-> 0, height |-> 0,
                point |-> <<>>],
        blocks |-> IF nseg > 0 THEN {"ws", "segment"} ELSE {"ws"}]

(* The handle after img_segmentation_unlink, and the blocks it frees. *)
img_segmentation_unlink(h) ==
  IF h # NULL /\ h.nrefs - 1 <= 0
  THEN [ws |-> NULL,
        freed |-> IF h.has_segment THEN {"ws", "segment"} ELSE {"ws"}]
  ELSE [ws |-> IF h = NULL THEN NULL ELSE [h EXCEPT !.nrefs = @ - 1],
        freed |-> {}]


(***************************************************************************)
(* The region extractor of img_segmentation_new.  st is the record of what *)
(* the macros STORE and CHECK update: link (the working bitmap), region    *)
(* (region[1..size] of the current region) and point (the packed point     *)
(* buffer written so far).                                                 *)
(***************************************************************************)
(* Faulty variant of STORE: the mask is copied after OWNED has been set. *)
STORE_AfterOwned(st, idx, width) ==
  [link |-> [st.link EXCEPT ![idx] = BitOr(@, IMG_LINK_OWNED)],
   region |-> Append(st.region, idx),
   point |-> Append(st.point, [link |-> BitOr(st.link[idx], IMG_LINK_OWNED),
                               x |-> ToInt16(idx % width),
                               y |-> ToInt16(idx \div width)])]

STORE(st, idx, width) ==
  [link |-> [st.link EXCEPT ![idx] = BitOr(@, IMG_LINK_OWNED)],
   region |-> Append(st.region, idx),
   point |-> Append(st.point, [link |-> st.link[idx],
                               x |-> ToInt16(idx % width),
                               y |-> ToInt16(idx \div width)])]

CHECK(st, s, dir, idx, width) ==
  IF HasBit(s, dir)
  THEN IF ~HasBit(st.link[idx], IMG_LINK_OWNED) THEN STORE(st, idx, width) ELSE st
  ELSE st

(* Faulty variant of the work-queue loop: the SOUTH link is not followed. *)
RECURSIVE RegionLoop_NoSouth(_, _, _)
RegionLoop_NoSouth(st, j, width) ==
  IF j > Len(st.region) THEN st
  ELSE LET k == st.region[j]
           s == st.link[k]
           a == CHECK(st, s, IMG_LINK_WEST, k - 1, width)
           b == CHECK(a, s, IMG_LINK_EAST, k + 1, width)
           e == CHECK(b, s, IMG_LINK_NORTH, k + width, width)
       IN RegionLoop_NoSouth(e, j + 1, width)

(* Faulty variant of the work-queue loop: a stored neighbour is explored   *)
(* at once (depth first) instead of being queued.                          *)
RECURSIVE Visit_DepthFirst(_, _, _)
Visit_DepthFirst(st, k, width) ==
  LET s == st.link[k]
      Go(t, dir, idx) ==
        IF HasBit(s, dir) /\ ~HasBit(t.link[idx], IMG_LINK_OWNED)
        THEN Visit_DepthFirst(STORE(t, idx, width), idx, width)
        ELSE t
      a == Go(st, IMG_LINK_WEST, k - 1)
      b == Go(a, IMG_LINK_EAST, k + 1)
      d == Go(b, IMG_LINK_SOUTH, k - width)
  IN Go(d, IMG_LINK_NORTH, k + width)

RegionLoop_DepthFirst(st, j, width) == Visit_DepthFirst(st, st.region[j], width)

(* for (j = 1; j <= size; ++j) *)
RECURSIVE RegionLoop(_, _, _)
RegionLoop(st, j, width) ==
  IF j > Len(st.region) THEN st
  ELSE LET k == st.region[j]
           s == st.link[k]
           a == CHECK(st, s, IMG_LINK_WEST, k - 1, width)
           b == CHECK(a, s, IMG_LINK_EAST, k + 1, width)
           d == CHECK(b, s, IMG_LINK_SOUTH, k - width, width)
           e == CHECK(d, s, IMG_LINK_NORTH, k + width, width)
       IN RegionLoop(e, j + 1, width)

(* Faulty variant of Unowned: the OWNED test of the raster scan is lost. *)
Unowned_Always(lnk, k) == TRUE

(* The pixel at raster position k seeds a region. *)
Unowned(lnk, k) == ~HasBit(lnk[k], IMG_LINK_OWNED)

(* One region: STORE(i), then the loop over its work queue. *)
Region(lnk, point, k, width) ==
  RegionLoop(STORE([link |-> lnk, region |-> <<>>, point |-> point], k, width),
             1, width)

(***************************************************************************)
(* The segment table: one record per region, from the region array and the *)
(* packed points.  point is the (0-based) offset of the segment's first    *)
(* point in the point buffer; xcen2 and ycen2 are twice xcen and ycen.     *)
(***************************************************************************)
MinOf(S) == CHOOSE v \in S : \A u \in S : v <= u
MaxOf(S) == CHOOSE v \in S : \A u \in S : v >= u

SegmentOf(point, first, count) ==
  LET xs == {point[first + 1].x} \cup {point[first + 1 + j].x : j \in 1..(count - 1)}
      ys == {point[first + 1].y} \cup {point[first + 1 + j].y : j \in 1..(count - 1)}
      xmin == MinOf(xs)
      xmax == MaxOf(xs)
      ymin == MinOf(ys)
      ymax == MaxOf(ys)
  IN [level |-> 0, nparents |-> 0, first_link |-> 0,
      xcen2 |-> xmin + xmax, ycen2 |-> ymin + ymax,
      point |-> first, count |-> count,
      xmin |-> xmin, xmax |-> xmax, ymin |-> ymin, ymax |-> ymax,
      width |-> xmax - xmin + 1, height |-> ymax - ymin + 1]

(* for (i = 0; i < nsegments; ++i): region is the offset in the region     *)
(* array, first the offset in the point buffer.                            *)
RECURSIVE SegmentLoop(_, _, _, _, _, _, _)
SegmentLoop(segs, k, n, idx, region, point, first) ==
  IF k >= n THEN segs
  ELSE LET count == idx[region + 1]
       IN SegmentLoop(Append(segs, SegmentOf(point, first, count)),
                      k + 1, n, idx, region + count + 1, point, first + count)


(* No shear is being fitted. *)
NoFit ==
  [pc |-> "idle", iter |-> 0, passes |-> 0, outcome |-> "none",
   maxiter |-> 0, shear |-> 0, seen |-> <<>>, best_shear |-> 0,
   best_spacing |-> 0, status |-> IMG_SUCCESS]

(* The value of a pointer variable that was never assigned. *)
Indeterminate == -2

(* No memory stack has been initialised. *)
NoMemstack ==
  [pc |-> "none", top |-> Indeterminate, block |-> <<>>, wild |-> FALSE,
   ub |-> FALSE, op |-> "none", given |-> FALSE, ret |-> 0, err |-> "none",
   was |-> [top |-> Indeterminate, block |-> <<>>]]

(***************************************************************************)
(* img_segmentation_new, one action per stage of the function.             *)
(***************************************************************************)
Init ==
  /\ pc = "idle"
  /\ args = NoArgs
  /\ stack = NullStack
  /\ heap = {}
  /\ errno = "none"
  /\ oom = FALSE
  /\ index = NULL
  /\ link = NULL
  /\ threshold = 0
  /\ status = IMG_SUCCESS
  /\ ws = NULL
  /\ i = 0
  /\ nsegments = 0
  /\ result = NULL
  /\ sgm = NULL
  /\ holders = NoHolders
  /\ sel = NULL
  /\ list = <<>>
  /\ op = "none"
  /\ cp = NoFrame
  /\ pool = NULL
  /\ fit = NoFit
  /\ ms = NoMemstack

Enter(a) ==
  /\ pc' = "setup"
  /\ args' = a
  /\ errno' = "none"
  /\ oom' = FALSE
  /\ UNCHANGED <<stack, heap, index, link, threshold, status, ws, i, nsegments,
               result>>
  /\ UNCHANGED <<client, chaining>>
  /\ UNCHANGED units

(* A call on an image of a sampled pixel type. *)
Call ==
  /\ pc = "idle"
  /\ \E ty \in SampledTypes, wh \in Sizes :
       \E st \in Pitches(wh[1], wh[2]), t \in Thresholds2(ty) :
         \E im \in Images(ty, wh[1], wh[2], st) :
           Enter([img |-> im, imgNull |-> FALSE, type |-> ty, offset |-> 0,
                  width |-> wh[1], height |-> wh[2], stride |-> st, t2 |-> t])

(* A call with an argument that is to be rejected: a non-positive          *)
(* dimension, a pitch below the width, an unsupported tag or no image.     *)
CallInvalid ==
  /\ pc = "idle"
  /\ \E ty \in SampledTypes \cup UnsupportedTags, w \in -1..2, h \in -1..2,
        d \in -1..1, nul \in BOOLEAN :
       LET a == [img |-> IF nul THEN <<>> ELSE ConstantImage(ty, w, h, w + d),
                 imgNull |-> nul, type |-> ty, offset |-> 0,
                 width |-> w, height |-> h, stride |-> w + d, t2 |-> 0]
       IN ~WellFormed(a) /\ Enter(a)

npixels == args.width * args.height

(* SETUP_STACK(NULL); ws = NULL; *)
SetupStack ==
  /\ pc = "setup"
  /\ IF ~stack.exists
     THEN \E ok \in BOOLEAN :
            LET r == itemstack_new(ok)
            IN /\ stack' = r.stack
               /\ heap' = heap \cup r.blocks
               /\ pc' = IF ok THEN "index" ELSE "returned"
               /\ errno' = IF ok THEN errno ELSE "ENOMEM"
               /\ oom' = (oom \/ ~ok)
     ELSE LET r == itemstack_drop(stack, -1)
          IN /\ stack' = r.stack
             /\ heap' = heap \ r.freed
             /\ pc' = "index"
             /\ UNCHANGED <<errno, oom>>
  /\ ws' = NULL
  /\ result' = NULL
  /\ UNCHANGED <<args, index, link, threshold, status, i, nsegments>>
  /\ UNCHANGED <<client, chaining>>
  /\ UNCHANGED units

(* index = PUSH_NEW_ARRAY(long, 2*npixels); *)
AllocIndex ==
  /\ pc = "index"
  /\ \E mallocOK \in BOOLEAN, growOK \in BOOLEAN :
       LET nbytes == (2*npixels)*8
           r == itemstack_push_dynamic(stack, "index", nbytes, mallocOK, growOK)
       IN /\ stack' = r.stack
          /\ heap' = heap \cup r.blocks
          /\ errno' = SetErrno(errno, r.err)
          /\ oom' = (oom \/ (r.err = "ENOMEM" /\ ~Unsatisfiable(nbytes)))
          /\ index' = IF r.ptr = "NULL" THEN NULL
                      ELSE [null |-> FALSE, region |-> <<>>]
          /\ pc' = IF r.ptr = "NULL" THEN "done" ELSE "link"
  /\ UNCHANGED <<args, link, threshold, status, ws, i, nsegments, result>>
  /\ UNCHANGED <<client, chaining>>
  /\ UNCHANGED units

(* The contents of a block that malloc returns. *)
Garbage == {0, 255}

(* link = PUSH_NEW_ARRAY(link_t, npixels); the result is not tested. *)
AllocLink ==
  /\ pc = "link"
  /\ \E mallocOK \in BOOLEAN, growOK \in BOOLEAN, g \in Garbage :
       LET nbytes == npixels*1
           r == itemstack_push_dynamic(stack, "link", nbytes, mallocOK, growOK)
       IN /\ stack' = r.stack
          /\ heap' = heap \cup r.blocks
          /\ errno' = SetErrno(errno, r.err)
          /\ oom' = (oom \/ (r.err = "ENOMEM" /\ ~Unsatisfiable(nbytes)))
          /\ link' = IF r.ptr = "NULL" THEN NULL
                     ELSE [null |-> FALSE, cell |-> [k \in 0..(npixels - 1) |-> g]]
  /\ pc' = "build"
  /\ UNCHANGED <<args, index, threshold, status, ws, i, nsegments, result>>
  /\ UNCHANGED <<client, chaining>>
  /\ UNCHANGED units

(* switch (type) ... BUILD_LINKS(TYPE)(img, offset, stride, link, 0, width, *)
(* width, height, threshold)                                               *)
Dispatch ==
  /\ pc = "build"
  /\ IF SupportedTag(args.type)
     THEN \E thr \in ThresholdToPixel(args.type, args.t2), ovf \in OverflowOutcomes :
            LET c == [type |-> args.type, img |-> args.img,
                      img_offset |-> args.offset, img_pitch |-> args.stride,
                      lnk_offset |-> 0, lnk_pitch |-> args.width,
                      width |-> args.width, height |-> args.height,
                      threshold |-> thr, ovf |-> ovf]
                r == BUILD_LINKS(c, args.imgNull, link)
            IN /\ threshold' = thr
               /\ status' = r.status
               /\ errno' = SetErrno(errno, r.err)
               /\ link' = r.lnk
     ELSE /\ status' = IMG_FAILURE
          /\ errno' = "EINVAL"
          /\ UNCHANGED <<link, threshold>>
  /\ pc' = IF status' = IMG_SUCCESS THEN "allocate" ELSE "done"
  /\ UNCHANGED <<args, stack, heap, oom, index, ws, i, nsegments, result>>
  /\ UNCHANGED <<client, chaining>>
  /\ UNCHANGED units

(* ws = allocate(npixels, 0); ws->width = width; ws->height = height; *)
Allocate ==
  /\ pc = "allocate"
  /\ \E ok \in BOOLEAN :
       LET r == allocate(npixels, 0, ok, TRUE)
       IN /\ ws' = IF r.ws = NULL THEN NULL
                   ELSE [r.ws EXCEPT !.width = args.width, !.height = args.height]
          /\ heap' = heap \cup r.blocks
          /\ errno' = IF ok THEN errno ELSE "ENOMEM"
          /\ oom' = (oom \/ ~ok)
          /\ pc' = IF ok THEN "extract" ELSE "done"
  /\ i' = 0
  /\ nsegments' = 0
  /\ UNCHANGED <<args, stack, index, link, threshold, status, result>>
  /\ UNCHANGED <<client, chaining>>
  /\ UNCHANGED units

(* One iteration of for (i = 0; i < npixels; ++i), or its exit. *)
Extract ==
  /\ pc = "extract"
  /\ IF i < npixels
     THEN /\ IF Unowned(link.cell, i)
             THEN LET st == Region(link.cell, ws.point, i, args.width)
                  IN /\ link' = [link EXCEPT !.cell = st.link]
                     /\ ws' = [ws EXCEPT !.point = st.point]
                     /\ index' = [index EXCEPT
                                    !.region = @ \o <<Len(st.region)>> \o st.region]
                     /\ nsegments' = nsegments + 1
             ELSE UNCHANGED <<link, ws, index, nsegments>>
          /\ i' = i + 1
          /\ pc' = pc
     ELSE /\ pc' = "drop"
          /\ UNCHANGED <<link, ws, index, nsegments, i>>
  /\ UNCHANGED <<args, stack, heap, errno, oom, threshold, status, result>>
  /\ UNCHANGED <<client, chaining>>
  /\ UNCHANGED units

(* DROP_ITEM(1): free the link array. *)
DropLink ==
  /\ pc = "drop"
  /\ LET r == itemstack_drop(stack, 1)
     IN /\ stack' = r.stack
        /\ heap' = heap \ r.freed
  /\ link' = NULL
  /\ pc' = "segments"
  /\ UNCHANGED <<args, errno, oom, index, threshold, status, ws, i, nsegments,
               result>>
  /\ UNCHANGED <<client, chaining>>
  /\ UNCHANGED units

(* if (nsegments > 0) { segment = NEW_ARRAY_ZERO(...); ... } *)
MakeSegments ==
  /\ pc = "segments"
  /\ IF nsegments > 0
     THEN \E ok \in BOOLEAN :
            IF ok
            THEN /\ ws' = [ws EXCEPT
                             !.segment = SegmentLoop(<<>>, 0, nsegments,
                                                     index.region, 0, ws.point, 0),
                             !.has_segment = TRUE,
                             !.number = nsegments]
                 /\ heap' = heap \cup {"segment"}
                 /\ UNCHANGED <<errno, oom>>
            ELSE LET r == img_segmentation_unlink(ws)
                 IN /\ ws' = NULL
                    /\ heap' = heap \ r.freed
                    /\ errno' = "ENOMEM"
                    /\ oom' = TRUE
     ELSE UNCHANGED <<ws, heap, errno, oom>>
  /\ pc' = "done"
  /\ UNCHANGED <<args, stack, index, link, threshold, status, i, nsegments,
               result>>
  /\ UNCHANGED <<client, chaining>>
  /\ UNCHANGED units

(* done: CLEAR_STACK(); return ws; *)
Done ==
  /\ pc = "done"
  /\ LET r == itemstack_drop(stack, -1)
     IN /\ stack' = r.stack
        /\ heap' = heap \ r.freed
  /\ index' = NULL
  /\ link' = NULL
  /\ result' = ws
  /\ pc' = "returned"
  /\ UNCHANGED <<args, errno, oom, threshold, status, ws, i, nsegments>>
  /\ UNCHANGED <<client, chaining>>
  /\ UNCHANGED units

(* The caller takes the result and, when it has inspected it, releases the *)
(* handle with img_segmentation_unlink.                                    *)
Return ==
  /\ pc = "returned"
  /\ heap' = heap \ img_segmentation_unlink(result).freed
  /\ pc' = "idle"
  /\ args' = NoArgs
  /\ index' = NULL
  /\ link' = NULL
  /\ threshold' = 0
  /\ status' = IMG_SUCCESS
  /\ ws' = NULL
  /\ i' = 0
  /\ nsegments' = 0
  /\ result' = NULL
  /\ errno' = "none"
  /\ oom' = FALSE
  /\ UNCHANGED stack
  /\ UNCHANGED <<client, chaining>>
  /\ UNCHANGED units

(***************************************************************************)
(* The caller.  A caller that keeps the handle it received works with that *)
(* one handle (pc = "held") until every reference it took is dropped.      *)
(***************************************************************************)
Keep ==
  /\ pc = "returned"
  /\ result # NULL
  /\ sgm' = result
  /\ holders' = [creator |-> TRUE, links |-> 0]
  /\ op' = "new"
  /\ pc' = "held"
  /\ args' = NoArgs
  /\ index' = NULL
  /\ link' = NULL
  /\ threshold' = 0
  /\ status' = IMG_SUCCESS
  /\ ws' = NULL
  /\ i' = 0
  /\ nsegments' = 0
  /\ result' = NULL
  /\ errno' = "none"
  /\ oom' = FALSE
  /\ UNCHANGED <<stack, heap, sel, list, chaining>>
  /\ UNCHANGED units

(* The handle of the caller is still allocated. *)
Allocated(h) == h # NULL /\ "ws" \in heap

(***************************************************************************)
(* img_segmentation_select(src, list, number).  Indices are 0-based as in  *)
(* C; segment[j + 1] is the C segment[j]; a segment's point field is the   *)
(* offset of its first point in the point buffer of its handle.            *)
(***************************************************************************)
PointsOfSegment(h, j) ==
  SubSeq(h.point, h.segment[j + 1].point + 1,
         h.segment[j + 1].point + h.segment[j + 1].count)

RECURSIVE SumOfCounts(_, _, _)
SumOfCounts(src, lst, k) ==
  IF k > Len(lst) THEN 0
  ELSE src.segment[lst[k] + 1].count + SumOfCounts(src, lst, k + 1)

(* Faulty variant of the copy loop: the point field of the copied segment  *)
(* is left as it was in src.                                               *)
RECURSIVE SelectLoop_NoFixup(_, _, _, _)
SelectLoop_NoFixup(dst, src, lst, k) ==
  IF k > Len(lst) THEN dst
  ELSE LET j == lst[k]
       IN SelectLoop_NoFixup([dst EXCEPT
                                !.segment[k] = src.segment[j + 1],
                                !.point = @ \o PointsOfSegment(src, j)],
                             src, lst, k + 1)

(* for (i = 0; i < number; ++i) of the copy: dst.segment[i] = src.segment[j],*)
(* its points copied at the running position of the point buffer of dst.   *)
RECURSIVE SelectLoop(_, _, _, _)
SelectLoop(dst, src, lst, k) ==
  IF k > Len(lst) THEN dst
  ELSE LET j == lst[k]
           first == Len(dst.point)
       IN SelectLoop([dst EXCEPT
                        !.segment[k] = [src.segment[j + 1] EXCEPT !.point = first],
                        !.point = @ \o PointsOfSegment(src, j)],
                     src, lst, k + 1)

img_segmentation_select(src, lst, listNull, number, okWs, okSegment) ==
  IF src = NULL \/ listNull
  THEN [dst |-> NULL, err |-> "EFAULT", blocks |-> {}]
  ELSE IF number <= 0
  THEN [dst |-> NULL, err |-> "EINVAL", blocks |-> {}]
  ELSE IF \E k \in 1..number : lst[k] < 0 \/ lst[k] >= src.number
  THEN [dst |-> NULL, err |-> "EINVAL", blocks |-> {}]
  ELSE LET r == allocate(SumOfCounts(src, lst, 1), number, okWs, okSegment)
       IN IF r.ws = NULL
          THEN [dst |-> NULL, err |-> "ENOMEM", blocks |-> {}]
          ELSE [dst |-> SelectLoop([r.ws EXCEPT !.width = src.width,
                                                !.height = src.height],
                                   src, lst, 1),
                err |-> "keep", blocks |-> r.blocks]

(* The blocks of the selected handle, told apart from those of sgm. *)
Selected(blocks) ==
  {IF b = "ws" THEN "dst" ELSE "dst_segment" : b \in blocks}

(* Index lists given to img_segmentation_select on a handle of n segments: *)
(* every list of 1..MaxList valid indices, the list of all indices in      *)
(* order, and the lists that are to be rejected.                           *)
ValidLists(n) ==
  UNION {[1..len -> 0..(n - 1)] : len \in 1..MaxList} \cup {[k \in 1..n |-> k - 1]}

InvalidLists(n) == {<<>>, <<-1>>, <<n>>, <<0, n>>}

Select ==
  /\ pc = "held"
  /\ Allocated(sgm)
  /\ op # "select"
  /\ ~cp.called
  /\ \E lst \in ValidLists(sgm.number) \cup InvalidLists(sgm.number),
        listNull \in BOOLEAN, okWs \in BOOLEAN, okSegment \in BOOLEAN :
       LET r == img_segmentation_select(sgm, lst, listNull, Len(lst),
                                        okWs, okSegment)
       IN /\ listNull => lst = <<>>
          /\ sel' = r.dst
          /\ list' = lst
          /\ heap' = heap \cup Selected(r.blocks)
          /\ errno' = SetErrno(errno, r.err)
  /\ op' = "select"
  /\ UNCHANGED <<pc, args, stack, oom, index, link, threshold, status, ws, i,
               nsegments, result, sgm, holders, chaining>>
  /\ UNCHANGED units

(* The caller drops the selected handle. *)
DropSelected ==
  /\ pc = "held"
  /\ op = "select"
  /\ LET r == img_segmentation_unlink(sel)
     IN /\ sel' = r.ws
        /\ heap' = heap \ Selected(r.freed)
  /\ list' = <<>>
  /\ errno' = "none"
  /\ op' = "unlink"
  /\ UNCHANGED <<pc, args, stack, oom, index, link, threshold, status, ws, i,
               nsegments, result, sgm, holders, chaining>>
  /\ UNCHANGED units

(* img_segmentation_get_nrefs(ws) *)
img_segmentation_get_nrefs(h) == IF h # NULL THEN h.nrefs ELSE -1

(* img_segmentation_link(sgm): one more reference is taken. *)
img_segmentation_link(h) == IF h # NULL THEN [h EXCEPT !.nrefs = @ + 1] ELSE h

Link ==
  /\ pc = "held"
  /\ Allocated(sgm)
  /\ op # "select"
  /\ holders.links < MaxLinks
  /\ sgm' = img_segmentation_link(sgm)
  /\ holders' = [holders EXCEPT !.links = @ + 1]
  /\ op' = "link"
  /\ UNCHANGED <<pc, args, stack, heap, errno, oom, index, link, threshold,
               status, ws, i, nsegments, result, sel, list, chaining>>
  /\ UNCHANGED units

(* img_segmentation_unlink(sgm) by a holder: who is TRUE for the creator,  *)
(* FALSE for the holder of a reference taken by img_segmentation_link.     *)
(* The record of a freed handle stays in sgm: the pointer dangles.         *)
Unlink ==
  /\ pc = "held"
  /\ Allocated(sgm)
  /\ op # "select"
  /\ \E who \in BOOLEAN :
       /\ IF who THEN holders.creator ELSE holders.links > 0
       /\ holders' = IF who THEN [holders EXCEPT !.creator = FALSE]
                     ELSE [holders EXCEPT !.links = @ - 1]
  /\ LET r == img_segmentation_unlink(sgm)
     IN /\ sgm' = IF r.ws = NULL THEN sgm ELSE r.ws
        /\ heap' = heap \ r.freed
  /\ op' = "unlink"
  /\ UNCHANGED <<pc, args, stack, errno, oom, index, link, threshold, status,
               ws, i, nsegments, result, sel, list, chaining>>
  /\ UNCHANGED units

(* The caller forgets a handle that has been freed, or that nobody holds.  *)
Release ==
  /\ pc = "held"
  /\ op # "select"
  /\ ~Allocated(sgm) \/ (~holders.creator /\ holders.links = 0)
  /\ sgm' = NULL
  /\ holders' = NoHolders
  /\ list' = <<>>
  /\ op' = "none"
  /\ heap' = heap \ {"ws", "segment"}
  /\ errno' = "none"
  /\ pc' = "idle"
  /\ pool = NULL
  /\ cp' = NoFrame
  /\ UNCHANGED <<args, stack, oom, index, link, threshold, status, ws, i,
               nsegments, result, sel, pool>>
  /\ UNCHANGED units

(***************************************************************************)
(* Chaining of segments: the chainable items.  A chainable is either a     *)
(* segment of the handle or a chainlink of the item pool.  Chainlinks are  *)
(* numbered from 1 in the order of their creation (0 is the NULL pointer); *)
(* the C segment j is the chainable -(j + 1).  Pointers to segments (first,*)
(* last, segment_list[], chain->segment[]) are C indices in sgm->segment.  *)
(***************************************************************************)
Chainable(j) == -(j + 1)
SegmentIndex(c) == -c - 1

(* The chainable members (level, nparents, first_link) of the chainable c. *)
Item(g, c) == IF c < 0 THEN g.h.segment[-c] ELSE g.lnk[c]

(* ENDPOINT(e, m) of chainlink_insert *)
ENDPOINT(g, e, m) ==
  IF Item(g, e).level > 0
  THEN (IF m = "first" THEN g.lnk[e].first ELSE g.lnk[e].last)
  ELSE SegmentIndex(e)

(* itempool_new_item: an unused item of the pool; when there is none a new *)
(* fragment of ITEMS_PER_FRAGMENT items is allocated (fragOK is the        *)
(* allocator's answer).                                                    *)
ITEMS_PER_FRAGMENT == 20

FragmentBlocks == <<"fragment1", "fragment2", "fragment3">>

itempool_new_item(g, fragOK) ==
  IF g.items > 0 THEN [g EXCEPT !.items = @ - 1]
  ELSE IF ~fragOK
  THEN [g EXCEPT !.ok = FALSE, !.err = "ENOMEM"]
  ELSE [g EXCEPT !.items = ITEMS_PER_FRAGMENT - 1, !.frags = @ + 1]

(* Faulty variant of chainlink_insert: the new chainlink is appended after *)
(* the last one of the global list instead of becoming its head.           *)
chainlink_insert_AtTail(g, left, right, fragOK) ==
  LET a == itempool_new_item(g, fragOK)
      id == Len(g.lnk) + 1
      l == Item(g, left)
      new == [level |-> l.level + 1, nparents |-> 0, first_link |-> 0,
              next |-> 0, next_link |-> l.first_link,
              left_child |-> left, right_child |-> right,
              first |-> ENDPOINT(g, left, "first"),
              last |-> ENDPOINT(g, right, "last")]
      tail == IF g.first = 0 THEN 0
              ELSE CHOOSE k \in 1..Len(g.lnk) : g.lnk[k].next = 0
      b == [a EXCEPT !.lnk = Append(IF tail = 0 THEN @
                                    ELSE [@ EXCEPT ![tail].next = id], new),
                     !.first = IF tail = 0 THEN id ELSE @]
      c == IF left < 0
           THEN [b EXCEPT !.h.segment[-left].first_link = id,
                          !.h.segment[-left].nparents = @ + 1]
           ELSE [b EXCEPT !.lnk[left].first_link = id,
                          !.lnk[left].nparents = @ + 1]
      d == IF right < 0
           THEN [c EXCEPT !.h.segment[-right].nparents = @ + 1]
           ELSE [c EXCEPT !.lnk[right].nparents = @ + 1]
  IN IF a.ok THEN [d EXCEPT !.count = @ + 1] ELSE a

(* Faulty variant of chainlink_insert: the last segment of the new         *)
(* chainlink is taken from its left child.                                 *)
chainlink_insert_LastOfLeft(g, left, right, fragOK) ==
  LET a == itempool_new_item(g, fragOK)
      id == Len(g.lnk) + 1
      l == Item(g, left)
      new == [level |-> l.level + 1, nparents |-> 0, first_link |-> 0,
              next |-> g.first, next_link |-> l.first_link,
              left_child |-> left, right_child |-> right,
              first |-> ENDPOINT(g, left, "first"),
              last |-> ENDPOINT(g, left, "last")]
      b == [a EXCEPT !.lnk = Append(@, new), !.first = id]
      c == IF left < 0
           THEN [b EXCEPT !.h.segment[-left].first_link = id,
                          !.h.segment[-left].nparents = @ + 1]
           ELSE [b EXCEPT !.lnk[left].first_link = id,
                          !.lnk[left].nparents = @ + 1]
      d == IF right < 0
           THEN [c EXCEPT !.h.segment[-right].nparents = @ + 1]
           ELSE [c EXCEPT !.lnk[right].nparents = @ + 1]
  IN IF a.ok THEN [d EXCEPT !.count = @ + 1] ELSE a

(* Faulty variant of chainlink_insert: the right child does not count the  *)
(* new chainlink among its parents.                                        *)
chainlink_insert_NoRightParent(g, left, right, fragOK) ==
  LET a == itempool_new_item(g, fragOK)
      id == Len(g.lnk) + 1
      l == Item(g, left)
      new == [level |-> l.level + 1, nparents |-> 0, first_link |-> 0,
              next |-> g.first, next_link |-> l.first_link,
              left_child |-> left, right_child |-> right,
              first |-> ENDPOINT(g, left, "first"),
              last |-> ENDPOINT(g, right, "last")]
      b == [a EXCEPT !.lnk = Append(@, new), !.first = id]
      c == IF left < 0
           THEN [b EXCEPT !.h.segment[-left].first_link = id,
                          !.h.segment[-left].nparents = @ + 1]
           ELSE [b EXCEPT !.lnk[left].first_link = id,
                          !.lnk[left].nparents = @ + 1]
  IN IF a.ok THEN [c EXCEPT !.count = @ + 1] ELSE a

(* Faulty variant of chainlink_insert: the new chainlink is put two levels *)
(* above its left child.                                                   *)
chainlink_insert_TwoLevelsUp(g, left, right, fragOK) ==
  LET a == itempool_new_item(g, fragOK)
      id == Len(g.lnk) + 1
      l == Item(g, left)
      new == [level |-> l.level + 2, nparents |-> 0, first_link |-> 0,
              next |-> g.first, next_link |-> l.first_link,
              left_child |-> left, right_child |-> right,
              first |-> ENDPOINT(g, left, "first"),
              last |-> ENDPOINT(g, right, "last")]
      b == [a EXCEPT !.lnk = Append(@, new), !.first = id]
      c == IF left < 0
           THEN [b EXCEPT !.h.segment[-left].first_link = id,
                          !.h.segment[-left].nparents = @ + 1]
           ELSE [b EXCEPT !.lnk[left].first_link = id,
                          !.lnk[left].nparents = @ + 1]
      d == IF right < 0
           THEN [c EXCEPT !.h.segment[-right].nparents = @ + 1]
           ELSE [c EXCEPT !.lnk[right].nparents = @ + 1]
  IN IF a.ok THEN [d EXCEPT !.count = @ + 1] ELSE a

(* chainlink_insert(&first, itempool, left, right), followed by the        *)
(* ++count of its two call sites.  g is the record of what it updates: the *)
(* handle h, the chainlinks lnk, the head first of the global list, the    *)
(* unused items of the pool, and the status ok.                            *)
chainlink_insert(g, left, right, fragOK) ==
  LET a == itempool_new_item(g, fragOK)
      id == Len(g.lnk) + 1
      l == Item(g, left)
      new == [level |-> l.level + 1, nparents |-> 0, first_link |-> 0,
              next |-> g.first, next_link |-> l.first_link,
              left_child |-> left, right_child |-> right,
              first |-> ENDPOINT(g, left, "first"),
              last |-> ENDPOINT(g, right, "last")]
      b == [a EXCEPT !.lnk = Append(@, new), !.first = id]
      c == IF left < 0
           THEN [b EXCEPT !.h.segment[-left].first_link = id,
                          !.h.segment[-left].nparents = @ + 1]
           ELSE [b EXCEPT !.lnk[left].first_link = id,
                          !.lnk[left].nparents = @ + 1]
      d == IF right < 0
           THEN [c EXCEPT !.h.segment[-right].nparents = @ + 1]
           ELSE [c EXCEPT !.lnk[right].nparents = @ + 1]
  IN IF a.ok THEN [d EXCEPT !.count = @ + 1] ELSE a

(* The chainlinks reached from k through next_link, in order. *)
RECURSIVE LinkList(_, _)
LinkList(lnk, k) ==
  IF k = 0 THEN <<>> ELSE <<k>> \o LinkList(lnk, lnk[k].next_link)

(* The chainlinks reached from k through next, in order: the global list.  *)
RECURSIVE GlobalList(_, _)
GlobalList(lnk, k) ==
  IF k = 0 THEN <<>> ELSE <<k>> \o GlobalList(lnk, lnk[k].next)

(* The vector of segments of the chain defined by a chainable: the loop    *)
(* while (chainable->level > 0) { segment_list[k++] = chainlink->first;    *)
(* chainable = chainlink->right_child; } and the final segment.            *)
RECURSIVE ChainOf(_, _)
ChainOf(g, c) ==
  IF Item(g, c).level > 0
  THEN <<g.lnk[c].first>> \o ChainOf(g, g.lnk[c].right_child)
  ELSE <<SegmentIndex(c)>>

(***************************************************************************)
(* The alignment test.  Coordinates of centres are halves of integers, the *)
(* tolerances of the model are integers, so every comparison of the code   *)
(* is made here on integers: X = 2*xcen, Y = 2*ycen, and with np1 points   *)
(*   D = np1*sum(X^2) - sum(X)^2,   N = np1*sum(X*Y) - sum(X)*sum(Y),      *)
(* fit_line gives r = D/(4*np1^2) and alpha = N/D; the distance of (x, y)  *)
(* to the line is |N*(np1*X - sum(X)) - D*(np1*Y - sum(Y))| / (2*np1*D).   *)
(***************************************************************************)
Abs(v) == IF v < 0 THEN -v ELSE v

RECURSIVE SumSeq(_)
SumSeq(q) == IF q = <<>> THEN 0 ELSE Head(q) + SumSeq(Tail(q))

(* short_line_init(&line, list, length): the sums over the segments of     *)
(* list, on the doubled coordinates.                                       *)
short_line_init(h, lst) ==
  LET s(k) == h.segment[lst[k] + 1]
      n == Len(lst)
  IN [sh |-> SumSeq([k \in 1..n |-> s(k).height]),
      sx |-> SumSeq([k \in 1..n |-> s(k).xcen2]),
      sy |-> SumSeq([k \in 1..n |-> s(k).ycen2]),
      sxx |-> SumSeq([k \in 1..n |-> s(k).xcen2 * s(k).xcen2]),
      sxy |-> SumSeq([k \in 1..n |-> s(k).xcen2 * s(k).ycen2]),
      length |-> n, list |-> lst]

(* fit_line(sw, swx, swy, swxx, swxy): status 0, -1 (r <= 0) or -2         *)
(* (sw <= 0), with the slope alpha as the fraction num/den.                *)
fit_line(sw, swx, swy, swxx, swxy) ==
  LET den == sw*swxx - swx*swx
      num == sw*swxy - swx*swy
  IN IF sw <= 0 THEN [status |-> -2, num |-> 0, den |-> 1]
     ELSE IF den <= 0 THEN [status |-> -1, num |-> 0, den |-> 1]
     ELSE [status |-> 0, num |-> num, den |-> den]

short_line_accept(h, line, j, slope, aatol, artol) ==
  LET s == h.segment[j + 1]
      np1 == line.length + 1
      sx == line.sx + s.xcen2
      sy == line.sy + s.ycen2
      f == fit_line(np1, sx, sy, line.sxx + s.xcen2*s.xcen2,
                    line.sxy + s.xcen2*s.ycen2)
      bound == 2*f.den*(aatol*np1 + artol*(line.sh + s.height))
      e(k) == Abs(f.num*(np1*h.segment[k + 1].xcen2 - sx)
                  - f.den*(np1*h.segment[k + 1].ycen2 - sy))
  IN IF f.status # 0 \/ Abs(f.num) > slope*f.den THEN FALSE
     ELSE IF e(j) > bound THEN FALSE
     ELSE \A k \in 1..line.length : ~(e(line.list[k]) > bound)

(***************************************************************************)
(* img_chainpool_new: the arguments.  The tolerances of the model are      *)
(* doubles with integer values; prec is only read by the shear fits, whose *)
(* outcome is an input of the emission step.                               *)
(***************************************************************************)
(* The arguments given to img_chainpool_new: strict rows of segments of    *)
(* equal heights (Aligned), chains of slope up to 1 with an alignment      *)
(* tolerance of one pixel (Slanted), and arguments out of their ranges     *)
(* that the function fixes (Unchecked); lmin <= lmax in 2..MaxLength.      *)
(* Chains of slope up to 1 with no alignment tolerance (Crooked), taken    *)
(* with lmin = lmax = MaxLength, give a segment several successors.        *)
Aligned == [satol |-> 0, srtol |-> 0, drmin |-> 0, drmax |-> 2, slope |-> 0,
            aatol |-> 0, artol |-> 0]
Slanted == [satol |-> 0, srtol |-> 0, drmin |-> 0, drmax |-> 2, slope |-> 1,
            aatol |-> 1, artol |-> 0]
Crooked == [satol |-> 0, srtol |-> 0, drmin |-> 0, drmax |-> 2, slope |-> 1,
            aatol |-> 0, artol |-> 0]
Unchecked == [satol |-> -1, srtol |-> 2, drmin |-> 2, drmax |-> 0, slope |-> -1,
              aatol |-> -1, artol |-> -1]

ChainArguments ==
  {a \in [satol : {-1, 0}, srtol : {0, 2}, drmin : {0, 2}, drmax : {0, 2},
          slope : {-1, 0, 1}, aatol : {-1, 0, 1}, artol : {-1, 0},
          lmin : 2..MaxLength, lmax : 2..MaxLength] :
     /\ a.lmin <= a.lmax
     /\ \E t \in {Aligned, Slanted, Crooked, Unchecked} :
          /\ \A fld \in DOMAIN t : a[fld] = t[fld]
          /\ t = Crooked => a.lmin = MaxLength}

(* Check/fix arguments. *)
FixArguments(a) ==
  LET srtol == IF a.srtol < 0 THEN 0 ELSE IF a.srtol > 1 THEN 1 ELSE a.srtol
      drmin == Max(a.drmin, 0)
      drmax == Max(a.drmax, 0)
  IN [satol |-> Max(a.satol, 0), srtol |-> srtol,
      drmin |-> IF drmax < drmin THEN drmax ELSE drmin,
      drmax |-> IF drmax < drmin THEN drmin ELSE drmax,
      slope |-> Max(a.slope, 0), aatol |-> Max(a.aatol, 0),
      artol |-> Max(a.artol, 0), lmin |-> a.lmin, lmax |-> a.lmax]

(* sa = 1.0 + 2.0*satol; sq = 2.0 - srtol; sr = 2.0 + srtol; *)
sa(par) == 1 + 2*par.satol
sq(par) == 2 - par.srtol
sr(par) == 2 + par.srtol

(* The tests of the level-1 loop on a pair (l, r) of segment records, with *)
(* rmin = drmin/2, rmax = drmax/2, hmin = (sq*h0 - sa)/sr and              *)
(* hmax = (sr*h0 + sa)/sq, each inequality multiplied by its (positive)    *)
(* denominators.                                                           *)
(* x1 >= xmax, where xmax = x0 + rmax*(h0 + hmax) *)
TooFar(par, l, r) ==
  sq(par)*(r.xcen2 - l.xcen2)
    >= par.drmax*((sq(par) + sr(par))*l.height + sa(par))

(* h1 <= hmin || h1 >= hmax *)
HeightOut(par, l, r) ==
  \/ sr(par)*r.height <= sq(par)*l.height - sa(par)
  \/ sq(par)*r.height >= sr(par)*l.height + sa(par)

(* fabs(y1 - y0) > slope*fabs(x1 - x0) *)
TooSteep(par, l, r) ==
  Abs(r.ycen2 - l.ycen2) > par.slope*Abs(r.xcen2 - l.xcen2)

(* delta_x < 1.0 + rmin*(w0 + w1) || delta_x > rmax*(h0 + h1) *)
BadGap(par, l, r) ==
  \/ r.xcen2 - l.xcen2 < 2 + par.drmin*(l.width + r.width)
  \/ r.xcen2 - l.xcen2 > par.drmax*(l.height + r.height)

(* The potential right segment is aligned with one of the existing         *)
(* successors of the left segment.                                         *)
Skip(g, par, jl, jr) ==
  /\ g.h.segment[jl + 1].first_link # 0
  /\ LET line == short_line_init(g.h, <<jl, jr>>)
         links == LinkList(g.lnk, g.h.segment[jl + 1].first_link)
     IN \E k \in 1..Len(links) :
          short_line_accept(g.h, line, g.lnk[links[k]].last,
                            par.slope, par.aatol, par.artol)

(* for (jright = jleft + 1; jright < nsegments; ++jright) *)
RECURSIVE RightLoop(_, _, _, _, _, _)
RightLoop(g, par, sl, jleft, jright, fragOK) ==
  IF ~g.ok \/ jright >= Len(sl) THEN g
  ELSE LET jl == sl[jleft + 1]
           jr == sl[jright + 1]
           l == g.h.segment[jl + 1]
           r == g.h.segment[jr + 1]
       IN IF TooFar(par, l, r) THEN g
          ELSE IF HeightOut(par, l, r) \/ TooSteep(par, l, r) \/ BadGap(par, l, r)
          THEN RightLoop(g, par, sl, jleft, jright + 1, fragOK)
          ELSE IF Skip(g, par, jl, jr)
          THEN RightLoop(g, par, sl, jleft, jright + 1, fragOK)
          ELSE RightLoop(chainlink_insert(g, Chainable(jl), Chainable(jr), fragOK),
                         par, sl, jleft, jright + 1, fragOK)

(* The body of the extension loop for one top: the successors of the right *)
(* child of top that are aligned with the chain of top are linked to top.  *)
RECURSIVE SuccessorLoop(_, _, _, _, _, _)
SuccessorLoop(g, par, line, top, links, fragOK) ==
  IF ~g.ok \/ links = <<>> THEN g
  ELSE LET lk == Head(links)
       IN IF short_line_accept(g.h, line, g.lnk[lk].last,
                               par.slope, par.aatol, par.artol)
          THEN SuccessorLoop(chainlink_insert(g, top, lk, fragOK),
                             par, line, top, Tail(links), fragOK)
          ELSE SuccessorLoop(g, par, line, top, Tail(links), fragOK)

ExtendTop(g, par, top, fragOK) ==
  LET rc == g.lnk[top].right_child
  IN IF Item(g, rc).first_link # 0
     THEN SuccessorLoop(g, par, short_line_init(g.h, ChainOf(g, top)), top,
                        LinkList(g.lnk, Item(g, rc).first_link), fragOK)
     ELSE g

(* The walk of the emission: the tops visited by                           *)
(* for (top = first; top != NULL && top->level + 1 >= lmin; top = top->next)*)
RECURSIVE Visited(_, _, _)
Visited(lnk, top, lmin) ==
  IF top = 0 \/ lnk[top].level + 1 < lmin THEN <<>>
  ELSE <<top>> \o Visited(lnk, lnk[top].next, lmin)

(* Faulty variant of the test below: every visited top is taken. *)
Maximal_Always(lnk, top) == TRUE

(* if (top->nparents == 0): only chains that are not part of a longer      *)
(* chain are considered.                                                   *)
Maximal(lnk, top) == lnk[top].nparents = 0

(* pass 1: the number of visited tops that have no parent *)
CountChains(lnk, first, lmin) ==
  LET v == Visited(lnk, first, lmin)
  IN Cardinality({k \in 1..Len(v) : Maximal(lnk, v[k])})

(***************************************************************************)
(* The chain pool and its destruction.                                     *)
(***************************************************************************)
NoChain == [block |-> "NULL", length |-> 0, segment |-> <<>>]

ChainBlocks ==
  <<"chain1", "chain2", "chain3", "chain4", "chain5", "chain6", "chain7",
    "chain8", "chain9", "chain10", "chain11", "chain12">>

Range(q) == {q[k] : k \in 1..Len(q)}

(* Faulty variant of img_chainpool_destroy: the chain records are not      *)
(* freed.                                                                  *)
img_chainpool_destroy_KeepChains(chn, h) ==
  LET u == IF chn.segmentation THEN img_segmentation_unlink(h)
           ELSE [ws |-> h, freed |-> {}]
  IN [h |-> IF u.ws = NULL THEN h ELSE u.ws,
      freed |-> (IF "segment" \in u.freed THEN <<"segment">> ELSE <<>>)
                \o (IF "ws" \in u.freed THEN <<"ws">> ELSE <<>>)
                \o <<"chainpool">>]

(* img_chainpool_destroy(chn): h is the handle chn->segmentation points    *)
(* to.  The result is the handle afterwards and the blocks freed, in order.*)
img_chainpool_destroy(chn, h) ==
  LET u == IF chn.segmentation THEN img_segmentation_unlink(h)
           ELSE [ws |-> h, freed |-> {}]
      live == SelectSeq(SubSeq(chn.chain, 1, chn.nchains),
                        LAMBDA c : c # NoChain)
  IN [h |-> IF u.ws = NULL THEN h ELSE u.ws,
      freed |-> (IF "segment" \in u.freed THEN <<"segment">> ELSE <<>>)
                \o (IF "ws" \in u.freed THEN <<"ws">> ELSE <<>>)
                \o [k \in 1..Len(live) |-> live[k].block]
                \o <<"chainpool">>]

(* itempool_destroy(pool): the fragments, then the pool itself. *)
itempool_destroy(frags) ==
  [k \in 1..frags |-> FragmentBlocks[frags + 1 - k]] \o <<"itempool">>

(* itemstack_drop(stack, n) on the stack of img_chainpool_new, whose items *)
(* have destroy functions of their own: the items are destroyed from the   *)
(* top of the stack down.                                                  *)
RECURSIVE DropItems(_, _, _, _, _)
DropItems(items, n, chn, h, frags) ==
  IF n = 0 \/ items = <<>> THEN [item |-> items, h |-> h, freed |-> <<>>]
  ELSE LET it == items[Len(items)]
           d == IF it.destroy = "img_chainpool_destroy"
                THEN img_chainpool_destroy(chn, h)
                ELSE IF it.destroy = "itempool_destroy"
                THEN [h |-> h, freed |-> itempool_destroy(frags)]
                ELSE [h |-> h, freed |-> <<it.data>>]
           rest == DropItems(SubSeq(items, 1, Len(items) - 1), n - 1, chn,
                             d.h, frags)
       IN [item |-> rest.item, h |-> rest.h, freed |-> d.freed \o rest.freed]

(* clear_and_pop(stack): the bottom and top items are swapped, all items   *)
(* but the new bottom one are dropped, the last one is popped and its data *)
(* returned.                                                               *)
clear_and_pop(stk, chn, h, frags) ==
  LET n == Len(stk.item)
      swapped == [stk.item EXCEPT ![1] = stk.item[n], ![n] = stk.item[1]]
      d == DropItems(swapped, n - 1, chn, h, frags)
  IN IF n <= 0
     THEN [data |-> "NULL", stack |-> stk, h |-> h, freed |-> <<>>]
     ELSE [data |-> d.item[1].data, stack |-> [stk EXCEPT !.item = <<>>],
           h |-> d.h, freed |-> d.freed]

(***************************************************************************)
(* img_chainpool_new, one action per stage of the function.  cp is its     *)
(* frame; the handle it works on is sgm, whose segment records it reads    *)
(* and writes through chainlink_insert.                                    *)
(***************************************************************************)
(* The record chainlink_insert works on, and the frame after it.  The      *)
(* chainlinks that the segment records can point to are those of an        *)
(* earlier call (old, freed memory) followed by those of this call.        *)
Graph(f, h) ==
  [h |-> h, lnk |-> f.old \o f.lnk, first |-> f.first, items |-> f.items,
   frags |-> f.frags, count |-> f.count, ok |-> TRUE, err |-> "keep"]

Store(f, g) ==
  [f EXCEPT !.lnk = SubSeq(g.lnk, Len(f.old) + 1, Len(g.lnk)),
            !.first = g.first, !.items = g.items,
            !.count = g.count,
            !.frags = g.frags,
            !.made = @ \cup {FragmentBlocks[k] : k \in (f.frags + 1)..g.frags}]

(* failure: CLEAR_STACK(); return NULL; *)
Failure(stk, hp, h, f, why) ==
  LET d == DropItems(stk.item, -1, f.chainpool, h, f.frags)
  IN /\ stack' = [stk EXCEPT !.item = <<>>]
     /\ heap' = hp \ Range(d.freed)
     /\ sgm' = d.h
     /\ cp' = [f EXCEPT !.freed = @ \o d.freed, !.failed = why]
     /\ pool' = NULL
     /\ pc' = "held"
     /\ op' = "chainpool"

(* The answers of the allocator that can take part in one step of the      *)
(* loops: a step creates at most h.number chainlinks, so that no fragment  *)
(* is allocated when more unused items than that remain.                   *)
FragmentAnswers(f, h) == IF f.items <= h.number THEN BOOLEAN ELSE {TRUE}

(* The answers of the allocator that take part in a push on stk. *)
GrowAnswers(stk) == IF Len(stk.item) >= stk.size THEN BOOLEAN ELSE {TRUE}

(* From the entry to PUSH_ITEM(itempool, itempool_destroy). *)
(* The head of img_chainpool_new, down to the push of the item pool; f is   *)
(* the frame of the call with its fixed arguments.                         *)
ChainpoolEnter(f) ==
  /\ \E okStack \in (IF stack.exists THEN {TRUE} ELSE BOOLEAN),
        okItempool \in BOOLEAN :
       LET s == IF stack.exists
                THEN [stack |-> itemstack_drop(stack, -1).stack,
                      freed |-> itemstack_drop(stack, -1).freed, blocks |-> {}]
                ELSE [stack |-> itemstack_new(okStack).stack, freed |-> {},
                      blocks |-> itemstack_new(okStack).blocks]
           hp == (heap \ s.freed) \cup s.blocks
       IN IF ~s.stack.exists
          THEN /\ stack' = s.stack
               /\ heap' = hp
               /\ cp' = [f EXCEPT !.failed = "stack"]
               /\ errno' = "ENOMEM"
               /\ pc' = "held"
               /\ op' = "chainpool"
               /\ UNCHANGED <<sgm, pool>>
          ELSE IF ~okItempool
          THEN /\ Failure(s.stack, hp, sgm, f, "itempool")
               /\ errno' = "ENOMEM"
          ELSE \E growOK \in GrowAnswers(s.stack) :
                 LET p == itemstack_push(s.stack, "itempool",
                                         "itempool_destroy", growOK)
                     f1 == [f EXCEPT !.items = ITEMS_PER_FRAGMENT,
                                     !.made = {"itempool"}]
                 IN IF ~p.ok
                    THEN /\ Failure(s.stack, hp \cup {"itempool"}, sgm, f1, "push")
                         /\ errno' = SetErrno(errno, p.err)
                    ELSE /\ stack' = p.stack
                         /\ heap' = hp \cup {"itempool"} \cup p.blocks
                         /\ cp' = f1
                         /\ pc' = "cp_sort"
                         /\ UNCHANGED <<sgm, pool, op, errno>>
  /\ UNCHANGED <<args, oom, index, link, threshold, status, ws, i, nsegments,
               result, holders, sel, list>>
  /\ UNCHANGED units

(* img_chainpool_new(sgm, ...), the first one on the handle. *)
ChainpoolNew ==
  /\ pc = "held"
  /\ Allocated(sgm)
  /\ op \in {"new", "link"}
  /\ ~cp.called
  /\ pool = NULL
  /\ \E a \in ChainArguments :
       ChainpoolEnter([NoFrame EXCEPT !.called = TRUE,
                                      !.par = FixArguments(a), !.before = sgm])

(* img_chainpool_new(sgm, ...) once more on the same handle with the same  *)
(* arguments, after the first pool was destroyed.  The chainlinks of the   *)
(* first call are freed memory that the segment records still point to:    *)
(* they are kept in old, with their contents.                              *)
ChainpoolNewAgain ==
  /\ pc = "held"
  /\ Allocated(sgm)
  /\ op = "destroy"
  /\ cp.called /\ cp.round = 1 /\ cp.failed = "none"
  /\ cp.nmade = Cardinality(cp.kept)
  /\ pool = NULL
  /\ ChainpoolEnter([NoFrame EXCEPT !.called = TRUE, !.par = cp.par,
                                    !.before = sgm, !.round = 2,
                                    !.old = cp.lnk,
                                    !.previous = cp.chainpool])

(* img_chainpool_new(NULL, ...) *)
ChainpoolNewNull ==
  /\ pc = "held"
  /\ op \in {"new", "link"}
  /\ ~cp.called
  /\ pool = NULL
  /\ errno' = "EFAULT"
  /\ op' = "chainpool"
  /\ UNCHANGED <<pc, args, stack, heap, oom, index, link, threshold, status, ws,
               i, nsegments, result, sgm, holders, sel, list, chaining>>
  /\ UNCHANGED units

(* The orders sort_segments can leave the segments in: ascending xcen, the *)
(* segments of equal xcen in any order.                                    *)
SortedOrders(h) ==
  {[k \in 1..h.number |-> p[k] - 1] : p \in
     {q \in Permutations(1..h.number) :
        \A k \in 1..(h.number - 1) :
          h.segment[q[k]].xcen2 <= h.segment[q[k + 1]].xcen2}}

(* segment_list = PUSH_NEW_ARRAY(segment_t *, nsegments), its filling and  *)
(* sort_segments(segment_list, nsegments).                                 *)
SortSegments ==
  /\ pc = "cp_sort"
  /\ \E okList \in BOOLEAN, growOK \in GrowAnswers(stack) :
       LET r == itemstack_push_dynamic(stack, "segment_list", sgm.number,
                                       okList, growOK)
       IN IF r.ptr = "NULL"
          THEN /\ Failure(stack, heap, sgm, cp, "segment_list")
               /\ errno' = SetErrno(errno, r.err)
          ELSE \E order \in SortedOrders(sgm) :
                 /\ stack' = r.stack
                 /\ heap' = heap \cup r.blocks
                 /\ cp' = [cp EXCEPT !.segment_list = order, !.jleft = 0,
                                     !.count = 0,
                                     !.made = @ \cup {"segment_list"}]
                 /\ pc' = "cp_level1"
                 /\ UNCHANGED <<sgm, pool, op, errno>>
  /\ UNCHANGED <<args, oom, index, link, threshold, status, ws, i, nsegments,
               result, holders, sel, list>>
  /\ UNCHANGED units

(* The iteration jleft of the level-1 loop reads left->first_link: some    *)
(* segment on its right passes the tests of the pair before the loop       *)
(* breaks.                                                                 *)
ReadsFirstLink(f, h) ==
  LET sl == f.segment_list
      l == h.segment[sl[f.jleft + 1] + 1]
      r(j) == h.segment[sl[j + 1] + 1]
  IN \E jright \in (f.jleft + 1)..(Len(sl) - 1) :
       /\ \A j \in (f.jleft + 1)..jright : ~TooFar(f.par, l, r(j))
       /\ ~HeightOut(f.par, l, r(jright))
       /\ ~TooSteep(f.par, l, r(jright))
       /\ ~BadGap(f.par, l, r(jright))

(* What the read of a chainlink of an earlier call can do: the freed       *)
(* memory still holds the chainlink ("intact"), or the process is killed   *)
(* ("crash").                                                              *)
StaleOutcomes(f, h) ==
  IF /\ f.round = 2
     /\ h.segment[f.segment_list[f.jleft + 1] + 1].first_link # 0
     /\ ReadsFirstLink(f, h)
  THEN {"intact", "crash"}
  ELSE {"none"}

(* One iteration of for (jleft = 0; jleft < nsegments; ++jleft): the first *)
(* level links that start at segment_list[jleft].                          *)
Level1 ==
  /\ pc = "cp_level1"
  /\ IF cp.jleft >= sgm.number
     THEN /\ cp' = [cp EXCEPT !.top = 0]
          /\ pc' = "cp_extend"
          /\ UNCHANGED <<stack, heap, sgm, pool, op, errno>>
     ELSE \E fragOK \in FragmentAnswers(cp, sgm),
             read \in StaleOutcomes(cp, sgm) :
            LET g == RightLoop(Graph(cp, sgm), cp.par, cp.segment_list,
                               cp.jleft, cp.jleft + 1, fragOK)
            IN IF read = "crash"
               THEN /\ cp' = [cp EXCEPT !.consulted = TRUE]
                    /\ pc' = "crashed"
                    /\ UNCHANGED <<stack, heap, sgm, pool, op, errno>>
               ELSE IF ~g.ok
               THEN /\ Failure(stack, heap \cup (Store(cp, g).made \ cp.made),
                               g.h, Store(cp, g), "chainlink")
                    /\ errno' = SetErrno(errno, g.err)
               ELSE /\ cp' = [Store(cp, g) EXCEPT
                                !.jleft = @ + 1,
                                !.consulted = @ \/ read = "intact"]
                    /\ sgm' = g.h
                    /\ heap' = heap \cup (Store(cp, g).made \ cp.made)
                    /\ UNCHANGED <<stack, pool, op, errno, pc>>
  /\ UNCHANGED <<args, oom, index, link, threshold, status, ws, i, nsegments,
               result, holders, sel, list>>
  /\ UNCHANGED units

(* while (count > 0) and the body of its for loop for one top. *)
Extend ==
  /\ pc = "cp_extend"
  /\ IF cp.top = 0 \/ cp.lnk[cp.top].level # cp.level
     THEN /\ IF cp.count > 0
             THEN /\ cp' = [cp EXCEPT !.level = cp.lnk[cp.first].level,
                                      !.count = 0, !.top = cp.first,
                                      !.sweeps = @ + 1]
                  /\ pc' = pc
             ELSE /\ cp' = cp
                  /\ pc' = "cp_pool"
          /\ UNCHANGED <<stack, heap, sgm, pool, op, errno>>
     ELSE \E fragOK \in FragmentAnswers(cp, sgm) :
            LET g == ExtendTop(Graph(cp, sgm), cp.par, cp.top, fragOK)
                f == [Store(cp, g) EXCEPT
                        !.segment_list =
                           IF Item(g, cp.lnk[cp.top].right_child).first_link # 0
                           THEN ChainOf(g, cp.top)
                                \o SubSeq(@, cp.level + 2, Len(@))
                           ELSE @]
            IN IF ~g.ok
               THEN /\ Failure(stack, heap \cup (f.made \ cp.made), g.h, f,
                               "chainlink")
                    /\ errno' = SetErrno(errno, g.err)
               ELSE /\ cp' = [f EXCEPT !.top = cp.lnk[cp.top].next]
                    /\ sgm' = g.h
                    /\ heap' = heap \cup (f.made \ cp.made)
                    /\ UNCHANGED <<stack, pool, op, errno, pc>>
  /\ UNCHANGED <<args, oom, index, link, threshold, status, ws, i, nsegments,
               result, holders, sel, list>>
  /\ UNCHANGED units

(* Pass 1, and the head of pass 2: the allocation of the chain pool, its   *)
(* push on the stack, chainpool->segmentation = img_segmentation_link(sgm).*)
AllocPool ==
  /\ pc = "cp_pool"
  /\ LET nchains == CountChains(cp.lnk, cp.first, cp.par.lmin)
         f == [cp EXCEPT !.nchains = nchains]
     IN IF nchains <= 0
        THEN /\ Failure(stack, heap, sgm, f, "none")
             /\ UNCHANGED errno
        ELSE \E okPool \in BOOLEAN, growOK \in GrowAnswers(stack) :
               LET p == itemstack_push(stack, "chainpool",
                                       "img_chainpool_destroy", growOK)
                   chn == [null |-> FALSE, nchains |-> 0, segmentation |-> FALSE,
                           chain |-> [k \in 1..nchains |-> NoChain]]
                   f1 == [f EXCEPT !.chainpool = chn,
                                   !.made = @ \cup {"chainpool"}]
               IN IF ~okPool
                  THEN /\ Failure(stack, heap, sgm, f, "chainpool")
                       /\ errno' = "ENOMEM"
                  ELSE IF ~p.ok
                  THEN /\ Failure(stack, heap \cup {"chainpool"}, sgm,
                                  [f1 EXCEPT !.chainpool = NULL], "push")
                       /\ errno' = SetErrno(errno, p.err)
                  ELSE /\ stack' = p.stack
                       /\ heap' = heap \cup {"chainpool"} \cup p.blocks
                       /\ sgm' = img_segmentation_link(sgm)
                       /\ cp' = [f1 EXCEPT !.chainpool.segmentation = TRUE,
                                           !.top = cp.first]
                       /\ pc' = "cp_emit"
                       /\ UNCHANGED <<pool, op, errno>>
  /\ UNCHANGED <<args, oom, index, link, threshold, status, ws, i, nsegments,
               result, holders, sel, list>>
  /\ UNCHANGED units

(* One iteration of the loop over all the chains in pass 2; when the loop  *)
(* ends, return POP_STACK().  fitOK tells whether fit_vertical_shear and   *)
(* fit_horizontal_shear both return SUCCESS for the chain.                 *)
Emit ==
  /\ pc = "cp_emit"
  /\ IF cp.top = 0 \/ cp.lnk[cp.top].level + 1 < cp.par.lmin
     THEN LET r == clear_and_pop(stack, cp.chainpool, sgm, cp.frags)
          IN /\ stack' = r.stack
             /\ heap' = heap \ Range(r.freed)
             /\ sgm' = r.h
             /\ cp' = [cp EXCEPT !.freed = @ \o r.freed]
             /\ pool' = IF r.data = "chainpool" THEN cp.chainpool ELSE NULL
             /\ pc' = "held"
             /\ op' = "chainpool"
             /\ UNCHANGED errno
     ELSE IF ~Maximal(cp.lnk, cp.top)
     THEN /\ cp' = [cp EXCEPT !.top = cp.lnk[cp.top].next]
          /\ UNCHANGED <<stack, heap, sgm, pool, op, errno, pc>>
     ELSE \E okChain \in BOOLEAN, fitOK \in BOOLEAN :
            LET block == ChainBlocks[cp.nmade + 1]
                slot == cp.chainpool.nchains + 1
                chain == [block |-> block, length |-> cp.lnk[cp.top].level + 1,
                          segment |-> ChainOf(Graph(cp, sgm), cp.top)]
                f == [cp EXCEPT !.chainpool.chain[slot] = chain,
                                !.chainpool.nchains = @ + 1,
                                !.nmade = @ + 1,
                                !.made = @ \cup {block},
                                !.top = cp.lnk[cp.top].next]
            IN IF ~okChain
               THEN /\ Failure(stack, heap, sgm, cp, "chain")
                    /\ errno' = "ENOMEM"
               ELSE IF ~fitOK
               THEN /\ cp' = [f EXCEPT !.chainpool.nchains = @ - 1,
                                       !.freed = @ \o <<block>>]
                    /\ UNCHANGED <<stack, heap, sgm, pool, op, errno, pc>>
               ELSE /\ cp' = [f EXCEPT !.kept = @ \cup {cp.top}]
                    /\ heap' = heap \cup {block}
                    /\ UNCHANGED <<stack, sgm, pool, op, errno, pc>>
  /\ UNCHANGED <<args, oom, index, link, threshold, status, ws, i, nsegments,
               result, holders, sel, list>>
  /\ UNCHANGED units

(* img_chainpool_destroy(pool) by the caller. *)
ChainpoolDestroy ==
  /\ pc = "held"
  /\ op # "select"
  /\ pool # NULL
  /\ LET d == img_chainpool_destroy(pool, sgm)
     IN /\ heap' = heap \ Range(d.freed)
        /\ sgm' = d.h
  /\ pool' = NULL
  /\ op' = "destroy"
  /\ UNCHANGED <<pc, args, stack, errno, oom, index, link, threshold, status,
               ws, i, nsegments, result, holders, sel, list, cp>>
  /\ UNCHANGED units

Next ==
  \/ Call
  \/ CallInvalid
  \/ SetupStack
  \/ AllocIndex
  \/ AllocLink
  \/ Dispatch
  \/ Allocate
  \/ Extract
  \/ DropLink
  \/ MakeSegments
  \/ Done
  \/ Return
  \/ Keep
  \/ Select
  \/ DropSelected
  \/ Link
  \/ Unlink
  \/ Release
  \/ ChainpoolNew
  \/ ChainpoolNewNull
  \/ SortSegments
  \/ Level1
  \/ Extend
  \/ AllocPool
  \/ Emit
  \/ ChainpoolDestroy
  \/ ChainpoolNewAgain

Spec == Init /\ [][Next]_vars


(***************************************************************************)
(* Vocabulary of the properties.                                           *)
(***************************************************************************)
Columns == 0..(args.width - 1)
Rows == 0..(args.height - 1)

(* The sample I(x, y) of the image given to the call. *)
Sample(x, y) == args.img[args.offset + y*args.stride + x]

(* The cell of pixel (x, y) in the bitmap built with pitch = width. *)
Mask(x, y) == link.cell[y*args.width + x]

(* BUILD_LINKS has returned IMG_SUCCESS and the bitmap is as it left it. *)
LinksBuilt == pc = "allocate"

(* |a - b| <= t in exact arithmetic (t below 2^31). *)
Within(a, b, t) ==
  LET hi == Max(a, b)
      lo == Min(a, b)
  IN IF lo < 0 /\ hi > INT32_MAX + lo THEN FALSE ELSE hi - lo <= t

(* |a - b| <= t for the double threshold t = t2/2. *)
WithinHalf(a, b, t2) ==
  LET hi == Max(a, b)
      lo == Min(a, b)
  IN IF lo < 0 /\ hi > INT32_MAX + lo THEN FALSE ELSE 2*(hi - lo) <= t2

C2_VerticalLinks ==
  (LinksBuilt /\ args.type = IMG_TYPE_UINT8) =>
    \A x \in Columns, y \in Rows :
      y + 1 < args.height =>
        ((HasBit(Mask(x, y), IMG_LINK_NORTH) /\ HasBit(Mask(x, y + 1), IMG_LINK_SOUTH))
           <=> Within(Sample(x, y), Sample(x, y + 1), threshold))

(* The threshold t2/2 is a value of the pixel type. *)
Representable(type, t2) ==
  /\ t2 % 2 = 0
  /\ type = IMG_TYPE_UINT8 => t2 \div 2 <= UINT8_MAX

(* C3: for a threshold that is exactly representable in the pixel type,    *)
(* every horizontally adjacent pair (x,y), (x+1,y), the first row          *)
(* included, has EAST on (x,y) and WEST on (x+1,y) iff |I(x,y) - I(x+1,y)| *)
(* <= threshold.                                                           *)
C3_HorizontalLinks ==
  (LinksBuilt /\ Representable(args.type, args.t2)) =>
    \A x \in Columns, y \in Rows :
      x + 1 < args.width =>
        ((HasBit(Mask(x, y), IMG_LINK_EAST) /\ HasBit(Mask(x + 1, y), IMG_LINK_WEST))
           <=> WithinHalf(Sample(x, y), Sample(x + 1, y), args.t2))

(* C4: for a UINT8 image and every non-negative double threshold t,        *)
(* fractional or above 255, two horizontally adjacent samples are linked   *)
(* iff |a - b| <= t in exact arithmetic.                                   *)
C4_ThresholdConversion ==
  (LinksBuilt /\ args.type = IMG_TYPE_UINT8) =>
    \A x \in Columns, y \in Rows :
      x + 1 < args.width =>
        (HasBit(Mask(x, y), IMG_LINK_EAST)
           <=> WithinHalf(Sample(x, y), Sample(x + 1, y), args.t2))


(***************************************************************************)
(* Vocabulary of the properties of the returned segmentation.              *)
(***************************************************************************)
Returned == pc = "returned" /\ result # NULL

Pixels == 0..(npixels - 1)

(* Raster position of an emitted point. *)
Raster(p) == p.y*args.width + p.x

(* Positions (1-based) of the points of segment k in the point buffer. *)
PointsOf(h, k) == (h.segment[k].point + 1)..(h.segment[k].point + h.segment[k].count)

(* The point emitted for the pixel at raster position a. *)
PointAt(h, a) == CHOOSE n \in 1..Len(h.point) : Raster(h.point[n]) = a

(* The segment that holds the pixel at raster position a. *)
SegmentAt(h, a) == CHOOSE k \in 1..Len(h.segment) : PointAt(h, a) \in PointsOf(h, k)

(* The pixels that the emitted link mask of pixel a points to. *)
Linked(h, a) ==
  LET m == h.point[PointAt(h, a)].link
  IN (IF HasBit(m, IMG_LINK_EAST) THEN {a + 1} ELSE {})
     \cup (IF HasBit(m, IMG_LINK_WEST) THEN {a - 1} ELSE {})
     \cup (IF HasBit(m, IMG_LINK_NORTH) THEN {a + args.width} ELSE {})
     \cup (IF HasBit(m, IMG_LINK_SOUTH) THEN {a - args.width} ELSE {})

(* The pixels reachable from those of S by a path of links. *)
RECURSIVE Closure(_, _)
Closure(h, S) ==
  LET T == S \cup UNION {Linked(h, a) : a \in S}
  IN IF T = S THEN S ELSE Closure(h, T)

(* Length of the shortest path of links from the frontier to pixel b, the  *)
(* frontier being at distance d (-1 when there is none).                   *)
RECURSIVE Distance(_, _, _, _, _)
Distance(h, frontier, seen, b, d) ==
  IF b \in frontier THEN d
  ELSE IF frontier = {} THEN -1
  ELSE LET nxt == (UNION {Linked(h, a) : a \in frontier}) \ (seen \cup frontier)
       IN Distance(h, nxt, seen \cup frontier, b, d + 1)

RECURSIVE SumCounts(_, _)
SumCounts(segs, k) == IF k = 0 THEN 0 ELSE segs[k].count + SumCounts(segs, k - 1)

C6_Components ==
  Returned =>
    \A a \in Pixels, b \in Pixels :
      (SegmentAt(result, a) = SegmentAt(result, b)) <=> (b \in Closure(result, {a}))

(* Witness of C6: two segments, one of which joins pixels of two rows and  *)
(* two columns.                                                            *)
C6_Witness ==
  /\ Returned
  /\ result.number >= 2
  /\ \E k \in 1..result.number :
       /\ result.segment[k].width >= 2
       /\ result.segment[k].height >= 2

(* C7: the first point of segment k is the pixel of lowest raster position *)
(* that belongs to none of the segments before k, and the points of a      *)
(* segment appear in non-decreasing link distance from that first point.   *)
C7_TraversalOrder ==
  Returned =>
    \A k \in 1..Len(result.segment) :
      LET first == result.segment[k].point + 1
          seed == Raster(result.point[first])
      IN /\ \A a \in Pixels : SegmentAt(result, a) >= k => seed <= a
         /\ \A n \in PointsOf(result, k) :
              /\ Distance(result, {seed}, {}, Raster(result.point[n]), 0) >= 0
              /\ n > first =>
                   Distance(result, {seed}, {}, Raster(result.point[n - 1]), 0)
                     <= Distance(result, {seed}, {}, Raster(result.point[n]), 0)

(* Witness of C7: a segment whose traversal branches: it holds a point at  *)
(* distance 3 from its seed and two points at distance 2.                  *)
C7_Witness ==
  /\ Returned
  /\ \E k \in 1..result.number :
       LET seed == Raster(result.point[result.segment[k].point + 1])
           D(n) == Distance(result, {seed}, {}, Raster(result.point[n]), 0)
       IN /\ \E n \in PointsOf(result, k) : D(n) = 3
          /\ Cardinality({n \in PointsOf(result, k) : D(n) = 2}) = 2
  /\ result.number >= 2

(* C8: the link attribute of every emitted point is the four-direction     *)
(* mask of its pixel in the bitmap, without the OWNED bit, although the    *)
(* extractor has set OWNED in the working bitmap for that pixel.           *)
C8_OwnedStripped ==
  /\ (pc \in {"extract", "drop"}) =>
       \A n \in 1..Len(ws.point) :
         LET p == ws.point[n]
             m == link.cell[Raster(p)]
         IN /\ HasBit(m, IMG_LINK_OWNED)
            /\ p.link = BitAnd(m, 15)
  /\ (pc = "extract" /\ i = 0) => \A a \in Pixels : link.cell[a] \in 0..15
  /\ ws # NULL => \A n \in 1..Len(ws.point) : ~HasBit(ws.point[n].link, IMG_LINK_OWNED)
  /\ result # NULL =>
       \A n \in 1..Len(result.point) : ~HasBit(result.point[n].link, IMG_LINK_OWNED)

(* Witness of C8: the extractor has emitted points with links and has      *)
(* marked their pixels OWNED in the working bitmap.                        *)
C8_Witness ==
  /\ pc = "drop"
  /\ \E n \in 1..Len(ws.point) :
       /\ ws.point[n].link = IMG_LINK_WEST + IMG_LINK_NORTH
       /\ link.cell[Raster(ws.point[n])] = IMG_LINK_WEST + IMG_LINK_NORTH + IMG_LINK_OWNED


(***************************************************************************)
(* Error reporting of img_segmentation_new.                                *)
(***************************************************************************)
Failed(kind) == pc = "returned" /\ result = NULL /\ errno = kind

(* C9: whenever width <= 0 or height <= 0 (in any combination of signs),   *)
(* or stride < width, or the type tag is not one of the ten numeric types, *)
(* the call returns no handle and reports EINVAL; with valid dimensions    *)
(* and type and a null image it reports EFAULT.  Stated for calls in which *)
(* the allocator refuses no satisfiable request, and, for EINVAL, with an  *)
(* image buffer.                                                           *)
C9_InvalidArguments ==
  (pc = "returned" /\ ~oom) =>
    /\ (/\ ~args.imgNull
        /\ \/ args.width <= 0
           \/ args.height <= 0
           \/ args.stride < args.width
           \/ ~SupportedTag(args.type)) => Failed("EINVAL")
    /\ (/\ args.imgNull
        /\ args.width >= 1 /\ args.height >= 1 /\ args.stride >= args.width
        /\ SupportedTag(args.type)) => Failed("EFAULT")

EmptyImage == args.width = 0 /\ args.height = 0

(* C10 as stated: a call with width = 0 and height = 0 succeeds and        *)
(* returns a handle whose segment count is 0.                              *)
C10_EmptyImageHandle ==
  (pc = "returned" /\ EmptyImage /\ ~oom) => (result # NULL /\ result.number = 0)

(* C10 as amended: a call with width = 0 and height = 0 returns no handle, *)
(* and reports EINVAL unless the temporary stack could not be allocated.   *)
C10_EmptyImageRejected ==
  (pc = "returned" /\ EmptyImage) =>
    /\ result = NULL
    /\ ~oom => errno = "EINVAL"

(* Witness of C10: an empty image of a supported type, with a buffer, has  *)
(* been rejected with EINVAL.                                              *)
C10_Witness ==
  /\ Failed("EINVAL")
  /\ EmptyImage
  /\ SupportedTag(args.type) /\ ~args.imgNull /\ args.stride >= args.width
  /\ ~oom


(***************************************************************************)
(* Reference counts and selection.                                         *)
(***************************************************************************)
(* C11: immediately after img_segmentation_new succeeds, and immediately   *)
(* after img_segmentation_select succeeds, img_segmentation_get_nrefs on   *)
(* the returned handle is 1.                                               *)
C11_FreshHandleCount ==
  /\ (pc = "returned" /\ result # NULL) => img_segmentation_get_nrefs(result) = 1
  /\ (op = "select" /\ sel # NULL) => img_segmentation_get_nrefs(sel) = 1

(* Offset at which the points of the k-th selected segment must start. *)
RECURSIVE OffsetOf(_, _, _)
OffsetOf(src, lst, k) ==
  IF k <= 1 THEN 0
  ELSE OffsetOf(src, lst, k - 1) + src.segment[lst[k - 1] + 1].count

SameSegment(a, b) ==
  /\ a.count = b.count
  /\ a.xmin = b.xmin /\ a.xmax = b.xmax /\ a.ymin = b.ymin /\ a.ymax = b.ymax
  /\ a.width = b.width /\ a.height = b.height
  /\ a.xcen2 = b.xcen2 /\ a.ycen2 = b.ycen2

(* dst is what the claim says a selection of lst from src is. *)
SelectionOf(src, dst, lst) ==
  /\ dst.number = Len(lst)
  /\ Len(dst.segment) = Len(lst)
  /\ dst.width = src.width /\ dst.height = src.height
  /\ Len(dst.point) = OffsetOf(src, lst, Len(lst) + 1)
  /\ \A k \in 1..Len(lst) :
       /\ SameSegment(dst.segment[k], src.segment[lst[k] + 1])
       /\ dst.segment[k].point = OffsetOf(src, lst, k)
       /\ PointsOfSegment(dst, k - 1) = PointsOfSegment(src, lst[k])

(* C13: for every source handle and every non-empty list of indices in     *)
(* [0, src.number), duplicates and any order allowed, a successful         *)
(* img_segmentation_select returns a new handle with number = length of    *)
(* the list whose k-th segment has the count, bounding box, centre and     *)
(* points of src segment list[k], in a point buffer of its own, with the   *)
(* image width and height copied, and leaves src unchanged (the list of    *)
(* all indices in order gives back the segments of src).                   *)
C13_Select ==
  [][(op # "select" /\ op' = "select" /\ sel' # NULL) =>
       /\ sgm' = sgm
       /\ SelectionOf(sgm, sel', list')
       /\ {"ws", "dst", "dst_segment"} \subseteq heap']_vars

(* Witness of C13: a selection with a duplicate or out of order, of        *)
(* segments of different sizes, has succeeded.                             *)
C13_Witness ==
  /\ op = "select" /\ sel # NULL
  /\ Len(list) = 2
  /\ list[1] >= list[2]
  /\ sgm.segment[list[1] + 1].count > 1
  /\ sgm.number >= 2

(***************************************************************************)
(* Chain pools.                                                            *)
(***************************************************************************)
(* A live chain pool refers to the caller's handle. *)
PoolRefers == pool # NULL /\ pool.segmentation

(* C12: for every sequence of img_segmentation_link, img_segmentation_     *)
(* unlink, img_chainpool_new and img_chainpool_destroy on a handle         *)
(* returned by img_segmentation_new, the handle is never freed while its   *)
(* creator has not called unlink or while a live chain pool refers to it;  *)
(* in particular new -> chainpool_new -> chainpool_destroy leaves the      *)
(* handle allocated.                                                       *)
C12_FreedByLastHolder ==
  (pc = "held" /\ (holders.creator \/ PoolRefers)) => Allocated(sgm)

(* img_chainpool_new has returned from a call on the caller's handle. *)
ChainpoolReturned == pc = "held" /\ cp.called /\ cp.round = 1

(* C14: img_chainpool_new leaves the contents of the segmentation handle   *)
(* unchanged: every field of every segment record (level, nparents,        *)
(* first_link, centre, point, count, bounding box) and every point are the *)
(* same after the call as before it, on success and on every failure path; *)
(* only the reference count may change.                                    *)
C14_HandleUnchanged ==
  ChainpoolReturned => [sgm EXCEPT !.nrefs = cp.before.nrefs] = cp.before

(* The blocks of the item pool of img_chainpool_new. *)
ItempoolBlocks == {"itempool"} \cup Range(FragmentBlocks)

(* C15: when img_chainpool_new returns, on success or failure, the item    *)
(* pool holding the chainlinks has been destroyed and nothing that         *)
(* outlives the call (the chain pool, its chain records, the segment       *)
(* records of the segmentation) still refers to a chainlink.  Chain        *)
(* records only hold segments; a segment refers to a chainlink through its *)
(* first_link member.                                                      *)
C15_NoChainlinkEscapes ==
  ChainpoolReturned =>
    /\ heap \cap ItempoolBlocks = {}
    /\ \A j \in 1..sgm.number : sgm.segment[j].first_link = 0

(* The chains stored in the pool the caller received. *)
Chains == IF pool = NULL THEN <<>> ELSE SubSeq(pool.chain, 1, pool.nchains)

(* C16: every chain stored in a pool returned by img_chainpool_new has a   *)
(* length L with lmin <= L <= lmax, for every segmentation and every       *)
(* lmin >= 2 and lmax >= lmin, also when more than lmax segments are       *)
(* aligned and evenly spaced.                                              *)
C16_ChainLengths ==
  \A k \in 1..Len(Chains) :
    /\ cp.par.lmin <= Chains[k].length
    /\ Chains[k].length <= cp.par.lmax

(* s is a contiguous sub-sequence of t. *)
ContiguousIn(s, t) ==
  \E off \in 0..(Len(t) - Len(s)) : SubSeq(t, off + 1, off + Len(s)) = s

(* C17: no chain of a pool returned by img_chainpool_new is a contiguous   *)
(* sub-sequence of another chain of the same pool.                         *)
C17_NoSubChain ==
  \A a \in 1..Len(Chains), b \in 1..Len(Chains) :
    a # b => ~ContiguousIn(Chains[a].segment, Chains[b].segment)

(* Witness of C17: a returned pool holds a chain of three segments and     *)
(* another chain, while pairs of segments were long enough to be emitted   *)
(* (lmin = 2) and some chainlink, covered by a longer one, was not.        *)
C17_Witness ==
  /\ ChainpoolReturned /\ pool # NULL
  /\ cp.par.lmin = 2
  /\ Len(Chains) >= 2
  /\ \E k \in 1..Len(Chains) : Chains[k].length = 3
  /\ \E t \in 1..Len(cp.lnk) : cp.lnk[t].nparents > 0

(* The levels of the chainlinks of the global list, read from its head. *)
Levels == [k \in 1..Len(GlobalList(cp.lnk, cp.first)) |->
             cp.lnk[GlobalList(cp.lnk, cp.first)[k]].level]

NonIncreasing(q) == \A k \in 1..(Len(q) - 1) : q[k] >= q[k + 1]

(* The tops whose chain the returned pool is to hold: those the emission   *)
(* walk visited, without parent, whose shear fit succeeded; in the order   *)
(* of the walk.                                                            *)
EmittedTops ==
  SelectSeq(Visited(cp.lnk, cp.first, cp.par.lmin),
            LAMBDA t : cp.lnk[t].nparents = 0 /\ t \in cp.kept)

(* C18: at every point of img_chainpool_new the global chainlink list,     *)
(* read from its head, is in non-increasing level order (and holds every   *)
(* chainlink); hence the emission walk visits every chainlink with         *)
(* level + 1 >= lmin, the returned pool holds a chain for exactly the      *)
(* visited links without parent whose shear fit succeeded, and its chains  *)
(* are in non-increasing length order.                                     *)
C18_LevelOrder ==
  /\ NonIncreasing(Levels)
  /\ Range(GlobalList(cp.lnk, cp.first)) = 1..Len(cp.lnk)
  /\ (ChainpoolReturned /\ pool # NULL) =>
       /\ Range(Visited(cp.lnk, cp.first, cp.par.lmin))
            = {t \in 1..Len(cp.lnk) : cp.lnk[t].level + 1 >= cp.par.lmin}
       /\ Len(Chains) = Len(EmittedTops)
       /\ \A k \in 1..Len(Chains) :
            /\ Chains[k].segment = ChainOf(Graph(cp, sgm), EmittedTops[k])
            /\ Chains[k].length = cp.lnk[EmittedTops[k]].level + 1
            /\ Chains[k].length = Len(Chains[k].segment)
       /\ NonIncreasing([k \in 1..Len(Chains) |-> Chains[k].length])

(* Witness of C18: a returned pool holds a chain of three segments         *)
(* followed by a chain of two, and the chain of some visited top was       *)
(* discarded by the shear fit.                                             *)
C18_Witness ==
  /\ ChainpoolReturned /\ pool # NULL
  /\ \E a \in 1..Len(Chains), b \in 1..Len(Chains) :
       a < b /\ Chains[a].length = 3 /\ Chains[b].length = 2
  /\ cp.nmade > Len(Chains)

(* img_chainpool_new has just returned from a call in which no allocation  *)
(* failed.                                                                 *)
ReturnedWithoutFailure ==
  ChainpoolReturned /\ op = "chainpool" /\ cp.failed = "none"

(* C19: on a valid segmentation with at least one segment, when no         *)
(* allocation fails, img_chainpool_new returns a valid pool and never the  *)
(* failure result, even when no chain qualifies (no chainlink reaches the  *)
(* length lmin, or every candidate is discarded by the shear fit); the     *)
(* pool then has 0 chains.                                                 *)
C19_PoolWithoutChain ==
  ReturnedWithoutFailure =>
    /\ pool # NULL
    /\ cp.kept = {} => pool.nchains = 0

(* The number of times img_chainpool_new freed the block b. *)
TimesFreed(b) == Cardinality({k \in 1..Len(cp.freed) : cp.freed[k] = b})

ValidArguments ==
  /\ ~args.imgNull
  /\ args.width >= 1 /\ args.height >= 1 /\ args.stride >= args.width
  /\ SupportedTag(args.type)

(* C21: whenever an allocation fails inside img_segmentation_new (the      *)
(* region-index array, the link bitmap, the handle with its point buffer,  *)
(* the segment table) the call returns NULL with errno ENOMEM, never with  *)
(* EFAULT or EINVAL, and the handle, if already allocated, has been freed. *)
(* Stated for calls with valid arguments.                                  *)
C21_OutOfMemory ==
  (pc = "returned" /\ oom /\ ValidArguments) =>
    /\ result = NULL
    /\ errno = "ENOMEM"
    /\ heap \cap {"ws", "segment"} = {}

(***************************************************************************)
(* The fit of the shears of a chain.  The sums, bounding boxes and         *)
(* spacings are floating-point numbers; what the loops do with them        *)
(* depends on their order only, so a pass of the regression is given by    *)
(* its outcome and a candidate shear by the rank of its spacing.           *)
(***************************************************************************)

(* const long maxiter = 10 in fit_vertical_shear. *)
VerticalMaxIter == 10

(* The largest ceil(bound/step) of the chains considered. *)
MaxCandidates == 2

(* The largest rank of a spacing. *)
MaxSpacing == 2

(* What a pass of fit_vertical_shear can find: fit_line refuses the sums,  *)
(* or fabs(slope) <= tol, or fabs(slope) > tol.                            *)
PassOutcomes == {"singular", "within", "beyond"}

(* The variables the fits leave alone. *)
program == <<pc, args, stack, heap, errno, oom, index, link, threshold,
             status, ws, i, nsegments, result, client, chaining>>

(* One turn of the while loop of fit_vertical_shear. *)
fit_vertical_shear(f, outcome) ==
  LET convergence == f.iter >= 1 /\ outcome = "within"
      g == [f EXCEPT !.passes = @ + 1, !.outcome = outcome]
  IN IF outcome = "singular"
       THEN [g EXCEPT !.status = IMG_FAILURE, !.pc = "done"]
     ELSE IF convergence
       THEN [g EXCEPT !.status = IMG_SUCCESS, !.pc = "fitted"]
     ELSE IF f.iter + 1 > VerticalMaxIter
       THEN [g EXCEPT !.iter = @ + 1, !.status = IMG_FAILURE, !.pc = "done"]
     ELSE [g EXCEPT !.iter = @ + 1]

(* The candidate of an iteration of fit_horizontal_shear, in steps. *)
CandidateShear(iter) ==
  IF iter % 2 = 0 THEN iter \div 2 ELSE -((iter + 1) \div 2)

(* One turn of the for loop of fit_horizontal_shear. *)
fit_horizontal_shear(f, spacing) ==
  LET shear == CandidateShear(f.iter)
      better == f.iter = 0 \/ spacing > f.best_spacing
  IN [f EXCEPT !.shear = shear,
               !.seen = Append(@, spacing),
               !.best_shear = IF better THEN shear ELSE @,
               !.best_spacing = IF better THEN spacing ELSE @,
               !.iter = @ + 1]

(* chainpool_new reaches the fit of a chain. *)
FitVerticalShear ==
  /\ fit.pc = "idle"
  /\ fit' = [NoFit EXCEPT !.pc = "vertical"]
  /\ UNCHANGED <<program, ms>>

(* A pass of the regression. *)
VerticalPass ==
  /\ fit.pc = "vertical"
  /\ \E outcome \in PassOutcomes : fit' = fit_vertical_shear(fit, outcome)
  /\ UNCHANGED <<program, ms>>

(* fit_vertical_shear succeeded, fit_horizontal_shear starts. *)
FitHorizontalShear ==
  /\ fit.pc = "fitted"
  /\ \E n \in 1..MaxCandidates :
       fit' = [fit EXCEPT !.pc = "horizontal", !.maxiter = 2*n, !.iter = 0,
                          !.best_shear = 0, !.best_spacing = 0]
  /\ UNCHANGED <<program, ms>>

(* A candidate shear is tried. *)
HorizontalCandidate ==
  /\ fit.pc = "horizontal"
  /\ fit.iter <= fit.maxiter
  /\ \E spacing \in 0..MaxSpacing : fit' = fit_horizontal_shear(fit, spacing)
  /\ UNCHANGED <<program, ms>>

(* The loop is over: chain->horizontal_shear = best_shear. *)
HorizontalReturn ==
  /\ fit.pc = "horizontal"
  /\ fit.iter > fit.maxiter
  /\ fit' = [fit EXCEPT !.pc = "done", !.status = IMG_SUCCESS]
  /\ UNCHANGED <<program, ms>>

(* The next chain. *)
FitDone ==
  /\ fit.pc = "done"
  /\ fit' = NoFit
  /\ UNCHANGED <<program, ms>>

FitNext ==
  \/ FitVerticalShear
  \/ VerticalPass
  \/ FitHorizontalShear
  \/ HorizontalCandidate
  \/ HorizontalReturn
  \/ FitDone

FitSpec == Init /\ [][FitNext]_vars

(* The candidates in the order 0, +1, -1, +2, -2, ... *)
PositiveFirst(k) ==
  IF k % 2 = 0 THEN -(k \div 2) ELSE (k + 1) \div 2

(* The spacing found for a shear. *)
SpacingOf(shear) ==
  fit.seen[(IF shear >= 0 THEN 2*shear ELSE -2*shear - 1) + 1]

HorizontalDone == fit.pc = "done" /\ Len(fit.seen) = fit.maxiter + 1

(* C22: fit_horizontal_shear returns the first candidate, in the order 0,   *)
(* +step, -step, +2*step, -2*step, ..., whose spacing is the largest: of    *)
(* two candidates of largest spacing the one of smaller magnitude, and of   *)
(* +k*step and -k*step the positive one.                                    *)
C22_FirstMaximiser ==
  HorizontalDone =>
    \E k \in 0..fit.maxiter :
      /\ fit.best_shear = PositiveFirst(k)
      /\ \A j \in 0..fit.maxiter :
           SpacingOf(PositiveFirst(j)) <= SpacingOf(PositiveFirst(k))
      /\ \A j \in 0..(k - 1) :
           SpacingOf(PositiveFirst(j)) < SpacingOf(PositiveFirst(k))

(* C23: fit_vertical_shear makes a first pass, does not converge on it,     *)
(* makes at most 10 passes, fails after the 10th without convergence and at *)
(* once when the regression is singular.                                    *)
C23_AtMostTenPasses ==
  /\ fit.pc \in {"fitted", "horizontal", "done"} => fit.passes >= 1
  /\ fit.pc = "fitted" => fit.passes >= 2
  /\ fit.passes <= 10
  /\ fit.passes = 10 => fit.pc # "vertical"
  /\ fit.outcome = "singular" => fit.pc = "done" /\ fit.status = IMG_FAILURE

(* C24: for 32-bit signed samples a and b that BUILD_LINKS compares, the    *)
(* subtraction of ABS_DIFF does not wrap, and ABS_DIFF(a, b) <= t computed  *)
(* modulo 2^32 holds iff |a - b| <= t.                                      *)
C24_AbsDiffNeverWraps ==
  (LinksBuilt /\ args.type = IMG_TYPE_INT32) =>
    \A x \in Columns, y \in Rows :
      x + 1 < args.width =>
        LET d == ABS_DIFF(args.type, Sample(x, y), Sample(x + 1, y))
        IN /\ ~d.overflow
           /\ (d.value <= threshold)
                <=> Within(Sample(x, y), Sample(x + 1, y), threshold)

(* img_chainpool_new is running on the handle. *)
InChainpoolNew ==
  /\ pc \in {"cp_sort", "cp_level1", "cp_extend", "cp_pool", "cp_emit"}
  /\ cp.round = 1

(* The chainlinks below the chainable c, at most n levels down. *)
RECURSIVE Descendants(_, _, _)
Descendants(lnk, c, n) ==
  IF c <= 0 \/ n = 0 THEN {}
  ELSE {lnk[c].left_child, lnk[c].right_child}
         \cup Descendants(lnk, lnk[c].left_child, n - 1)
         \cup Descendants(lnk, lnk[c].right_child, n - 1)

(* The chainlink k of the running call is well formed. *)
WellFormedLink(k) ==
  LET g == Graph(cp, sgm)
      c == cp.lnk[k]
      chain == ChainOf(g, k)
  IN /\ c.level >= 1
     /\ Item(g, c.left_child).level = c.level - 1
     /\ Item(g, c.right_child).level = c.level - 1
     /\ c.level >= 2 =>
          cp.lnk[c.left_child].right_child = cp.lnk[c.right_child].left_child
     /\ Len(chain) = c.level + 1
     /\ \A a, b \in 1..Len(chain) : a # b => chain[a] # chain[b]
     /\ c.first = chain[1]
     /\ c.last = chain[Len(chain)]
     /\ \A a \in 2..Len(chain) :
          sgm.segment[c.first + 1].xcen2 < sgm.segment[chain[a] + 1].xcen2
     /\ \A a \in 1..(Len(chain) - 1) :
          sgm.segment[chain[a] + 1].xcen2 < sgm.segment[c.last + 1].xcen2
     /\ k \notin Descendants(cp.lnk, k, Len(cp.lnk))

(* C25: at every point of img_chainpool_new on a fresh segmentation every   *)
(* chainlink is well formed: level >= 1, children one level below, for      *)
(* level >= 2 the left child's right child is the right child's left child, *)
(* its chain has level + 1 pairwise distinct segments from its first, the   *)
(* leftmost, to its last, the rightmost, and it is not its own descendant.  *)
C25_WellFormedLinks ==
  InChainpoolNew => \A k \in 1..Len(cp.lnk) : WellFormedLink(k)

(* A chainlink of level 2 has been made. *)
C25_Witness ==
  /\ InChainpoolNew
  /\ \E k \in 1..Len(cp.lnk) : cp.lnk[k].level >= 2

(* The chainlinks whose left (right) child is the chainable c. *)
ParentsByLeft(c) == {k \in 1..Len(cp.lnk) : cp.lnk[k].left_child = c}
ParentsByRight(c) == {k \in 1..Len(cp.lnk) : cp.lnk[k].right_child = c}

(* The chainables of the running call: segments and chainlinks. *)
Chainables ==
  {Chainable(j) : j \in 0..(sgm.number - 1)} \cup 1..Len(cp.lnk)

(* C27: at every point of img_chainpool_new on a fresh segmentation, for    *)
(* every segment or chainlink X, X.nparents is the number of chainlinks     *)
(* with X as left child plus the number with X as right child, and the list *)
(* from X.first_link through next_link holds exactly the chainlinks whose   *)
(* left child is X, each once, all of level X.level + 1.                    *)
C27_ParentCounts ==
  InChainpoolNew =>
    \A c \in Chainables :
      LET X == Item(Graph(cp, sgm), c)
          parents == LinkList(cp.lnk, X.first_link)
      IN /\ X.nparents = Cardinality(ParentsByLeft(c))
                           + Cardinality(ParentsByRight(c))
         /\ {parents[a] : a \in 1..Len(parents)} = ParentsByLeft(c)
         /\ Len(parents) = Cardinality(ParentsByLeft(c))
         /\ \A a \in 1..Len(parents) : cp.lnk[parents[a]].level = X.level + 1

(* A segment is the left child of two chainlinks and a chainlink is a      *)
(* child.                                                                  *)
C27_Witness ==
  /\ InChainpoolNew
  /\ \E c \in Chainables : Cardinality(ParentsByLeft(c)) >= 2
  /\ \E c \in 1..Len(cp.lnk) : ParentsByLeft(c) \cup ParentsByRight(c) # {}

(* The extension loop is sweeping the chainlinks of level cp.level. *)
Sweeping ==
  /\ pc = "cp_extend"
  /\ cp.top # 0
  /\ cp.lnk[cp.top].level = cp.level

(* The chainlinks a step has made. *)
NewLinks == (Len(cp.lnk) + 1)..Len(cp'.lnk)

(* The chainlinks of the global list that the sweep has still to visit. *)
ToVisit(f) == Len(GlobalList(f.lnk, f.top))

(* A turn of the sweep makes chainlinks of the next level only, leaves the *)
(* two lists it walks as they were (the global list from top on, and the   *)
(* list of the successors of the right child of top), and moves on in the  *)
(* global list.                                                            *)
SweepStep ==
  Sweeping =>
    /\ \A k \in NewLinks : cp'.lnk[k].level = cp.level + 1
    /\ pc' = "cp_extend" =>
         /\ GlobalList(cp'.lnk, cp.top) = GlobalList(cp.lnk, cp.top)
         /\ LET rc == cp.lnk[cp.top].right_child
            IN LinkList(cp'.lnk, Item(Graph(cp', sgm'), rc).first_link)
                 = LinkList(cp.lnk, Item(Graph(cp, sgm), rc).first_link)
         /\ cp'.sweeps = cp.sweeps
         /\ ToVisit(cp') < ToVisit(cp)

(* The test of the while loop: it ends the loop or starts one more sweep,  *)
(* of the level above the last one.                                        *)
SweepStart ==
  (pc = "cp_extend" /\ ~Sweeping /\ pc' = "cp_extend") =>
    /\ cp'.sweeps = cp.sweeps + 1
    /\ cp'.level = cp.level + 1
    /\ cp'.lnk = cp.lnk

(* No chain is longer than the scratch array, no sweep is beyond the       *)
(* nsegments - 1 possible levels.                                          *)
ExtensionBounds ==
  pc = "cp_extend" =>
    /\ \A k \in 1..Len(cp.lnk) : cp.lnk[k].level + 1 <= sgm.number
    /\ Len(cp.segment_list) = sgm.number
    /\ cp.sweeps <= Max(sgm.number - 1, 0)

(* C26: the extension loop of img_chainpool_new terminates: a sweep makes   *)
(* links one level above the swept level only and does not change a list it *)
(* walks, so each turn leaves fewer links to visit and each sweep is one    *)
(* level higher; the length level + 1 of every link is at most nsegments,   *)
(* the scratch array of nsegments entries is not overrun, and there are at  *)
(* most nsegments - 1 sweeps.                                               *)
C26_ExtensionTerminates ==
  /\ []ExtensionBounds
  /\ [][SweepStep /\ SweepStart]_vars

(* The loop has ended after two sweeps. *)
C26_Witness ==
  /\ pc = "cp_pool"
  /\ cp.sweeps >= 2
  /\ \E k \in 1..Len(cp.lnk) : cp.lnk[k].level = 2

(* C29: when img_chainpool_new fails after it has linked the segmentation   *)
(* (a chain record is refused in the second pass), the handle is still      *)
(* allocated on return and its reference count is the one it had before the *)
(* call, whatever that count was.                                           *)
C29_ReferenceRestored ==
  (ChainpoolReturned /\ op = "chainpool" /\ cp.failed = "chain") =>
    /\ Allocated(sgm)
    /\ sgm.nrefs = cp.before.nrefs

(* The vectors of segments of the chains of a pool, in the order of the    *)
(* pool.                                                                   *)
ChainVectors(chn) ==
  IF chn = NULL THEN <<>>
  ELSE LET live == SelectSeq(SubSeq(chn.chain, 1, chn.nchains),
                             LAMBDA c : c # NoChain)
       IN [k \in 1..Len(live) |-> live[k].segment]

(* The second img_chainpool_new on the handle has returned. *)
SecondReturn ==
  pc = "held" /\ op = "chainpool" /\ cp.called /\ cp.round = 2

(* C28: a second img_chainpool_new on the same handle with the same         *)
(* arguments consults no chainlink that the first call left in the segment  *)
(* records and, when no allocation is refused, returns the same chains in   *)
(* the same order as the first.                                             *)
C28_Repeatable ==
  /\ cp.round = 2 => (~cp.consulted /\ pc # "crashed")
  /\ (SecondReturn /\ cp.failed = "none") =>
       ChainVectors(pool) = ChainVectors(cp.previous)

(***************************************************************************)
(* memstack.c: a stack of malloc'ed blocks held in one pointer variable of  *)
(* the caller.  A pointer is 0 for NULL, the number of a block for the      *)
(* address of that block, Self for the address of the caller's pointer      *)
(* variable itself.  A block is [prev, magic, live, nbytes]: its two header *)
(* words, whether it has not been freed, and the size asked of malloc.      *)
(***************************************************************************)
MaxBlocks == 4

SizeofPointer == 8
ALIGN == 8

(* The address of the caller's pointer variable, the argument `stack'. *)
Self == -1

ROUND_UP(a, b) == ((a + (b - 1)) \div b) * b

(* The sizes pushed: zero, less than a unit of alignment, more than one. *)
PushSizes == {0, 1, ALIGN + 1}

(* What a read beyond the caller's pointer variable and a free of its      *)
(* address can do: the magic number is not found and the function returns, *)
(* the process is killed, or free returns as if nothing had happened.      *)
WildOutcomes == {"corrupted", "crash", "silent"}

IsLiveBlock(m, p) == p \in 1..Len(m.block) /\ m.block[p].live

(* The entry of a call: what the stack was, and which call it is. *)
MemstackCall(m, name, given) ==
  [m EXCEPT !.op = name, !.given = given, !.ret = 0,
            !.was = [top |-> m.top, block |-> m.block]]

memstack_init(m) ==
  [MemstackCall(m, "init", TRUE) EXCEPT !.pc = "ready", !.top = 0]

memstack_push(m, given, size, ok) ==
  LET c == MemstackCall(m, "push", given)
      offset == ROUND_UP(2*SizeofPointer, ALIGN)
      nbytes == offset + ROUND_UP(size, ALIGN)
      ptr == Len(m.block) + 1
  IN IF ~given THEN [c EXCEPT !.err = "EFAULT"]
     ELSE IF size <= 0 THEN [c EXCEPT !.err = "EINVAL"]
     ELSE IF ~ok THEN [c EXCEPT !.err = "ENOMEM"]
     ELSE [c EXCEPT !.block = Append(@, [prev |-> Self, magic |-> TRUE,
                                         live |-> TRUE, nbytes |-> nbytes]),
                    !.top = ptr,
                    !.ret = ptr]

(* The body shared by memstack_drop and the loop of memstack_clear, for a  *)
(* pointer that is not NULL: the magic number is read, then the pointer is *)
(* replaced by the first header word and the block is freed.               *)
Unstack(m, read) ==
  IF IsLiveBlock(m, m.top)
  THEN [m EXCEPT !.top = m.block[m.top].prev,
                 !.block[m.top].live = FALSE]
  ELSE CASE read = "corrupted" -> [m EXCEPT !.ub = TRUE, !.pc = "corrupted"]
         [] read = "crash" -> [m EXCEPT !.ub = TRUE, !.pc = "crashed"]
         [] OTHER -> [m EXCEPT !.ub = TRUE, !.wild = TRUE]

(* The function has returned to its caller. *)
MemstackReturn(m) == [m EXCEPT !.pc = IF @ = "corrupted" THEN "ready" ELSE @]

memstack_drop(m, given, read) ==
  LET c == MemstackCall(m, "drop", given)
  IN IF given /\ c.top # 0 THEN MemstackReturn(Unstack(c, read)) ELSE c

RECURSIVE ClearLoop(_, _)
ClearLoop(m, read) ==
  IF m.top = 0 THEN m
  ELSE LET n == Unstack(m, read)
       IN IF n.pc # "ready" THEN n
          ELSE IF n.top = m.top THEN [n EXCEPT !.pc = "looping"]
          ELSE ClearLoop(n, read)

memstack_clear(m, given, read) ==
  LET c == MemstackCall(m, "clear", given)
  IN IF given THEN MemstackReturn(ClearLoop(c, read)) ELSE c

MemstackInit ==
  /\ ms.pc = "none"
  /\ ms' = memstack_init(ms)
  /\ UNCHANGED <<program, fit>>

MemstackPush ==
  /\ ms.pc = "ready"
  /\ Len(ms.block) < MaxBlocks
  /\ \E given \in BOOLEAN, size \in PushSizes, ok \in BOOLEAN :
       ms' = memstack_push(ms, given, size, ok)
  /\ UNCHANGED <<program, fit>>

MemstackDrop ==
  /\ ms.pc = "ready"
  /\ \E given \in BOOLEAN, read \in WildOutcomes :
       ms' = memstack_drop(ms, given, read)
  /\ UNCHANGED <<program, fit>>

MemstackClear ==
  /\ ms.pc = "ready"
  /\ \E given \in BOOLEAN, read \in WildOutcomes :
       ms' = memstack_clear(ms, given, read)
  /\ UNCHANGED <<program, fit>>

MemNext ==
  \/ MemstackInit
  \/ MemstackPush
  \/ MemstackDrop
  \/ MemstackClear

MemSpec == Init /\ [][MemNext]_vars

(* The blocks that were pushed and have not been freed. *)
LiveBlocks(block) == {k \in 1..Len(block) : block[k].live}

(* The most recently pushed of a set of blocks, NULL when there is none. *)
Newest(S) == IF S = {} THEN 0 ELSE CHOOSE k \in S : \A j \in S : j <= k

(* C30: on a stack set up by memstack_init, memstack_drop frees exactly the *)
(* most recently pushed block still on the stack and leaves the pointer on  *)
(* the block pushed before it (NULL when none remains); memstack_clear      *)
(* frees every remaining block and leaves the pointer NULL; nothing that    *)
(* was not pushed is freed and every call returns.                          *)
C30_Lifo ==
  LET before == LiveBlocks(ms.was.block)
      after == LiveBlocks(ms.block)
  IN /\ ms.pc \in {"none", "ready"}
     /\ ~ms.wild
     /\ (ms.op = "drop" /\ ms.given) =>
          /\ after = before \ {Newest(before)}
          /\ ms.top = Newest(after)
     /\ (ms.op = "clear" /\ ms.given) =>
          /\ after = {}
          /\ ms.top = 0

====
